---- MODULE Spec2Model ----
(***************************************************************************)
(* RRT Architect: the puzzle generator (generateLogic), the geometry of    *)
(* the DEICTIC and MOVEMENT sub-modes, night-mode inversion, and the       *)
(* round/session controller of src/src/App.tsx.                            *)
(*                                                                         *)
(* Items are identified with their index 0..num in the generated symbol    *)
(* list; a rendered premise or question is kept as the tuple of item       *)
(* indices, canonical keyword and displayed term that the string is built  *)
(* from.  Math.random draws are the \E-bound inputs of each action.        *)
(***************************************************************************)
EXTENDS Integers, Sequences, FiniteSets, TLC

(* ---------------------------------------------------------------- bounds *)
MaxLinks == 3      \* deepest LINEAR / DISTINCTION / HIERARCHY chain generated
MaxWalk == 2       \* deepest spatial walk generated for STANDARD / DEICTIC
MaxDisp == 2       \* displacements explored for the bearing functions

(* ------------------------------------------------------------- constants *)
CIPHER_WORDS ==
  << "ZAX", "JOP", "KIV", "LUZ", "MEC", "VEX", "QOD", "WIB", "HAF", "GUK",
     "YIN", "BEX", "DUB", "ROZ", "NIX", "POK", "VOM", "JEX", "KAZ", "QUZ",
     "YEP", "WUX", "FIP", "GOZ" >>

relations ==
  << "GREATER", "LESS", "SAME", "DIFFERENT", "CONTAINS", "INSIDE",
     "NORTH", "SOUTH", "EAST", "WEST", "ABOVE", "BELOW",
     "LEFT", "RIGHT", "FRONT", "BEHIND", "START", "FACE", "WALK", "TURN" >>

RftModes == {"LINEAR", "DISTINCTION", "SPATIAL_2D", "SPATIAL_3D", "HIERARCHY"}

facingNames == << "NORTH", "EAST", "SOUTH", "WEST" >>

headingNames == << "NORTH", "EAST", "SOUTH", "WEST" >>

possibleDirs == {"FRONT", "BEHIND", "LEFT", "RIGHT"}

MaxTargetAttempts == 50

Abs(n) == IF n < 0 THEN -n ELSE n

(* --------------------------------------------------------------- helpers *)
\* [...array].sort(() => Math.random() - 0.5): some permutation of the array;
\* the permutations explored are the rotations by k.
shuffleArray(array, k) ==
  [i \in 1..Len(array) |-> array[((i - 1 + k) % Len(array)) + 1]]

\* the rotations explored for an array of n elements: none, or by one
Shifts(n) == {k \in {0, 1} : k = 0 \/ k < n}

\* A variant whose table sends BELOW to itself.
invertSpatialMapOneWay(p) ==
  CASE p = "NORTH" -> "SOUTH" [] p = "SOUTH" -> "NORTH"
    [] p = "EAST" -> "WEST"   [] p = "WEST" -> "EAST"
    [] p = "ABOVE" -> "BELOW" [] p = "BELOW" -> "BELOW"
    [] p = "LEFT" -> "RIGHT"  [] p = "RIGHT" -> "LEFT"
    [] p = "FRONT" -> "BEHIND" [] p = "BEHIND" -> "FRONT"
    [] p = "SAME LOCATION" -> "SAME LOCATION"
    [] OTHER -> p

\* map[p] || p
invertSpatialMap(p) ==
  CASE p = "NORTH" -> "SOUTH" [] p = "SOUTH" -> "NORTH"
    [] p = "EAST" -> "WEST"   [] p = "WEST" -> "EAST"
    [] p = "ABOVE" -> "BELOW" [] p = "BELOW" -> "ABOVE"
    [] p = "LEFT" -> "RIGHT"  [] p = "RIGHT" -> "LEFT"
    [] p = "FRONT" -> "BEHIND" [] p = "BEHIND" -> "FRONT"
    [] p = "SAME LOCATION" -> "SAME LOCATION"
    [] OTHER -> p

\* A relation is the sequence of its parts; the string form joins them with
\* " and ".  invertSpatial maps every part through the table.
invertSpatial(rel) == [i \in 1..Len(rel) |-> invertSpatialMap(rel[i])]

\* A variant that returns the first b drawn, equal to a or not.
getRandomIndices(count) == (0..(count - 1)) \X (0..(count - 1))

\* getDistinctRandomIndices(count): a is any index, b any other index (the
\* while loop redraws b until it differs from a).
getDistinctRandomIndices(count) ==
  {ab \in (0..(count - 1)) \X (0..(count - 1)) : ab[1] # ab[2]}

\* generateCipherKey: relations[i] -> shuffledWords[i % 24]
EmptyMap == [k \in {} |-> ""]

\* A variant that draws the tokens from the first 16 shuffled words only.
generateCipherKeyShortPool(k) ==
  LET shuffledWords == shuffleArray(CIPHER_WORDS, k)
  IN  [rel \in {relations[i] : i \in 1..Len(relations)} |->
         shuffledWords[(((CHOOSE i \in 1..Len(relations) : relations[i] = rel) - 1)
                          % 16) + 1]]

generateCipherKey(k) ==
  LET shuffledWords == shuffleArray(CIPHER_WORDS, k)
  IN  [rel \in {relations[i] : i \in 1..Len(relations)} |->
         shuffledWords[(((CHOOSE i \in 1..Len(relations) : relations[i] = rel) - 1)
                          % Len(shuffledWords)) + 1]]

\* the key generateCipherKey returns under each shuffle explored
cipherKeys == [k \in Shifts(Len(CIPHER_WORDS)) |-> generateCipherKey(k)]

(* --------------------------------------------- getTerm and createPremise *)
\* getTerm(key): the cipher token when cipher is on and the key is mapped,
\* else the key itself; UsedBy is the key it adds to usedKeys.
getTerm(key, enableCipher, cipherMap) ==
  IF enableCipher /\ key \in DOMAIN cipherMap THEN cipherMap[key] ELSE key

\* A variant that records every keyword the map holds, enabled or not.
UsedByMapOnly(key, enableCipher, cipherMap) ==
  IF key \in DOMAIN cipherMap THEN {key} ELSE {}

\* usedKeys.add(key) under the test of getTerm and createPremise
UsedBy(key, enableCipher, cipherMap) ==
  IF enableCipher /\ key \in DOMAIN cipherMap THEN {key} ELSE {}

\* rawRel.replace("is ","").replace(" than","").replace(" of","")
\*       .replace("the ","").trim()
cleanRel(rawRel) ==
  CASE rawRel = "is GREATER than" -> "GREATER"
    [] rawRel = "is LESS than" -> "LESS"
    [] OTHER -> rawRel

createPremise(a, rawRel, b, enableCipher, cipherMap) ==
  [a |-> a, rel |-> cleanRel(rawRel), b |-> b,
   shown |-> IF enableCipher /\ cleanRel(rawRel) \in DOMAIN cipherMap
             THEN cipherMap[cleanRel(rawRel)] ELSE rawRel]

NoQuestion ==
  [form |-> "", subj |-> 0, key |-> "", shown |-> "", obj |-> 0,
   facing |-> "", instr |-> << >>]

NoRound ==
  [premises |-> << >>, question |-> NoQuestion, answer |-> FALSE,
   modifiers |-> << >>, visualMap |-> << >>, usedCipherKeys |-> {}]

(* ---------------------------------------------------------------- LINEAR *)
\* rels[i] is the label drawn for link i (items[i-1], items[i]); qType the
\* query keyword; k the shuffle of the returned premises.
\* A variant that takes the earlier item of the chain for the lesser one.
LinearAnswerEarlierLesser(idxA, idxB, qType) ==
  IF qType = "GREATER" THEN idxA > idxB ELSE idxA < idxB

\* newAnswer = qType === "GREATER" ? (idxA < idxB) : (idxA > idxB)
LinearAnswer(idxA, idxB, qType) ==
  IF qType = "GREATER" THEN idxA < idxB ELSE idxA > idxB

NightFlip(isNight, newAnswer) == IF isNight THEN ~newAnswer ELSE newAnswer

GenLinear(num, enableCipher, cipherMap, isNight, rels, idxA, idxB, qType, k) ==
  LET newPremises ==
        [i \in 1..num |->
           createPremise(i - 1, IF rels[i] = "GREATER" THEN "is GREATER than"
                                ELSE "is LESS than", i, enableCipher, cipherMap)]
      used == UNION {UsedBy(rels[i], enableCipher, cipherMap) : i \in 1..num}
                \cup UsedBy(qType, enableCipher, cipherMap)
  IN  [premises |-> shuffleArray(newPremises, k),
       question |-> [form |-> "IS_THAN", subj |-> idxA, key |-> qType,
                     shown |-> getTerm(qType, enableCipher, cipherMap),
                     obj |-> idxB, facing |-> "", instr |-> << >>],
       answer |-> NightFlip(isNight, LinearAnswer(idxA, idxB, qType)),
       modifiers |-> << >>, visualMap |-> << >>, usedCipherKeys |-> used]

(* ----------------------------------------------------------- DISTINCTION *)
\* values[0] = v0; values[i] = values[i-1] if link i is SAME, else flipped.
RECURSIVE DistinctionValue(_, _, _)
DistinctionValue(v0, sames, i) ==
  IF i = 0 THEN v0
  ELSE IF sames[i] THEN DistinctionValue(v0, sames, i - 1)
       ELSE 1 - DistinctionValue(v0, sames, i - 1)

\* A variant that reads only the link below the later of the two indices.
DistinctionAnswerLastLink(v0, sames, idxA, idxB, qType) ==
  IF qType = "SAME" THEN sames[IF idxA > idxB THEN idxA ELSE idxB]
  ELSE ~sames[IF idxA > idxB THEN idxA ELSE idxB]

DistinctionAnswer(v0, sames, idxA, idxB, qType) ==
  IF qType = "SAME"
  THEN DistinctionValue(v0, sames, idxA) = DistinctionValue(v0, sames, idxB)
  ELSE DistinctionValue(v0, sames, idxA) # DistinctionValue(v0, sames, idxB)

GenDistinction(num, enableCipher, cipherMap, isNight, v0, sames, idxA, idxB, qType, k) ==
  LET relOf(i) == IF sames[i] THEN "SAME" ELSE "DIFFERENT"
      newPremises ==
        [i \in 1..num |-> createPremise(i - 1, relOf(i), i, enableCipher, cipherMap)]
      used == UNION {UsedBy(relOf(i), enableCipher, cipherMap) : i \in 1..num}
                \cup UsedBy(qType, enableCipher, cipherMap)
      qText == IF ~enableCipher
               THEN (IF qType = "SAME" THEN "the SAME as" ELSE "DIFFERENT from")
               ELSE getTerm(qType, enableCipher, cipherMap)
  IN  [premises |-> shuffleArray(newPremises, k),
       question |-> [form |-> "IS", subj |-> idxA, key |-> qType, shown |-> qText,
                     obj |-> idxB, facing |-> "", instr |-> << >>],
       answer |-> NightFlip(isNight, DistinctionAnswer(v0, sames, idxA, idxB, qType)),
       modifiers |-> << >>, visualMap |-> << >>, usedCipherKeys |-> used]

(* ------------------------------------------------------------- HIERARCHY *)
\* A variant that answers both queries as the INSIDE query.
HierarchyAnswerInsideOnly(idxA, idxB, askInside) == idxA > idxB

HierarchyAnswer(idxA, idxB, askInside) ==
  IF askInside THEN idxA > idxB ELSE idxA < idxB

GenHierarchy(num, enableCipher, cipherMap, isNight, idxA, idxB, askInside, k) ==
  LET newPremises ==
        [i \in 1..num |-> createPremise(i - 1, "CONTAINS", i, enableCipher, cipherMap)]
      qKey == IF askInside THEN "INSIDE" ELSE "CONTAINS"
      used == UsedBy("CONTAINS", enableCipher, cipherMap)
                \cup UsedBy(qKey, enableCipher, cipherMap)
  IN  [premises |-> shuffleArray(newPremises, k),
       question |-> [form |-> IF askInside THEN "IS" ELSE "DOES", subj |-> idxA,
                     key |-> qKey, shown |-> getTerm(qKey, enableCipher, cipherMap),
                     obj |-> idxB, facing |-> "", instr |-> << >>],
       answer |-> NightFlip(isNight, HierarchyAnswer(idxA, idxB, askInside)),
       modifiers |-> << >>, visualMap |-> << >>, usedCipherKeys |-> used]

(* --------------------------------------------------------------- SPATIAL *)
\* dir = Math.floor(Math.random() * (is3D ? 6 : 4)) and the switch on it.
dirText(dir) ==
  CASE dir = 0 -> "NORTH" [] dir = 1 -> "SOUTH" [] dir = 2 -> "EAST"
    [] dir = 3 -> "WEST" [] dir = 4 -> "ABOVE" [] dir = 5 -> "BELOW"

\* A variant whose NORTH and SOUTH steps run the other way along y.
dirDeltaSouthUp(dir) ==
  CASE dir = 0 -> [x |-> 0, y |-> -1, z |-> 0]
    [] dir = 1 -> [x |-> 0, y |-> 1, z |-> 0]
    [] dir = 2 -> [x |-> 1, y |-> 0, z |-> 0]
    [] dir = 3 -> [x |-> -1, y |-> 0, z |-> 0]
    [] dir = 4 -> [x |-> 0, y |-> 0, z |-> 1]
    [] dir = 5 -> [x |-> 0, y |-> 0, z |-> -1]

\* the dx, dy, dz of the switch on dir
dirDelta(dir) ==
  CASE dir = 0 -> [x |-> 0, y |-> 1, z |-> 0]
    [] dir = 1 -> [x |-> 0, y |-> -1, z |-> 0]
    [] dir = 2 -> [x |-> 1, y |-> 0, z |-> 0]
    [] dir = 3 -> [x |-> -1, y |-> 0, z |-> 0]
    [] dir = 4 -> [x |-> 0, y |-> 0, z |-> 1]
    [] dir = 5 -> [x |-> 0, y |-> 0, z |-> -1]

WalkDirs(is3D) == IF is3D THEN 0..5 ELSE 0..3

\* positions[i]: (cx, cy, cz) after the first i steps, starting at the origin.
RECURSIVE walkPosition(_, _)
walkPosition(dirs, i) ==
  IF i = 0 THEN [x |-> 0, y |-> 0, z |-> 0]
  ELSE LET p == walkPosition(dirs, i - 1)
           d == dirDelta(dirs[i])
       IN  [x |-> p.x + d.x, y |-> p.y + d.y, z |-> p.z + d.z]

\* premise i: "items[i] is <text> of items[i-1]"
walkPremises(num, dirs, enableCipher, cipherMap) ==
  [i \in 1..num |-> createPremise(i, dirText(dirs[i]), i - 1, enableCipher, cipherMap)]

walkUsed(num, dirs, enableCipher, cipherMap) ==
  UNION {UsedBy(dirText(dirs[i]), enableCipher, cipherMap) : i \in 1..num}

walkVisualNodes(num, dirs) ==
  [j \in 1..(num + 1) |->
     [id |-> j - 1, x |-> walkPosition(dirs, j - 1).x,
      y |-> walkPosition(dirs, j - 1).y, z |-> walkPosition(dirs, j - 1).z]]

\* availableTypes after the filter that drops STANDARD when a modifier is on.
availableTypes(enableDeictic, enableMovement, is3D) ==
  LET pushed == {"STANDARD"}
                  \cup (IF enableDeictic THEN {"DEICTIC"} ELSE {})
                  \cup (IF enableMovement /\ ~is3D THEN {"MOVEMENT"} ELSE {})
  IN  IF Cardinality(pushed) > 1 THEN pushed \ {"STANDARD"} ELSE pushed

(* --------------------------------------------------------------- DEICTIC *)
\* A variant whose EAST and WEST rotations turn the other way.
deicticLocalTurned(facingDir, diffX, diffY) ==
  CASE facingDir = 0 -> [localX |-> diffX, localY |-> diffY]
    [] facingDir = 1 -> [localX |-> diffY, localY |-> -diffX]
    [] facingDir = 2 -> [localX |-> -diffX, localY |-> -diffY]
    [] facingDir = 3 -> [localX |-> -diffY, localY |-> diffX]

\* rotation of the displacement into the observer's frame
deicticLocal(facingDir, diffX, diffY) ==
  CASE facingDir = 0 -> [localX |-> diffX, localY |-> diffY]
    [] facingDir = 1 -> [localX |-> -diffY, localY |-> diffX]
    [] facingDir = 2 -> [localX |-> -diffX, localY |-> -diffY]
    [] facingDir = 3 -> [localX |-> diffY, localY |-> -diffX]

trueLocalRel(localX, localY) ==
  IF localY > 0 /\ Abs(localX) <= localY THEN "FRONT"
  ELSE IF localY < 0 /\ Abs(localX) <= Abs(localY) THEN "BEHIND"
  ELSE IF localX > 0 THEN "RIGHT"
  ELSE IF localX < 0 THEN "LEFT"
  ELSE "SAME LOCATION"

deicticRel(facingDir, diffX, diffY) ==
  trueLocalRel(deicticLocal(facingDir, diffX, diffY).localX,
               deicticLocal(facingDir, diffX, diffY).localY)

effectiveRel(isNight, rel) == IF isNight THEN invertSpatial(<<rel>>)[1] ELSE rel

\* The bearing queries the generator can build against an effective relation:
\* the relation itself (answer true), or a bearing redrawn until it differs
\* from the effective relation (answer false).
BearingAsks(effRel) ==
  {[key |-> effRel, answer |-> TRUE]}
    \cup {[key |-> fakeRaw, answer |-> FALSE] : fakeRaw \in possibleDirs \ {effRel}}

GenDeictic(num, enableCipher, cipherMap, isNight, dirs, idxMe, idxTarget, facingDir, ask, k) ==
  LET myFacing == facingNames[facingDir + 1]
      used == walkUsed(num, dirs, enableCipher, cipherMap)
                \cup UsedBy(myFacing, enableCipher, cipherMap)
                \cup UsedBy(ask.key, enableCipher, cipherMap)
  IN  [premises |-> shuffleArray(walkPremises(num, dirs, enableCipher, cipherMap), k),
       question |-> [form |-> "DEICTIC", subj |-> idxTarget, key |-> ask.key,
                     shown |-> getTerm(ask.key, enableCipher, cipherMap),
                     obj |-> idxMe,
                     facing |-> getTerm(myFacing, enableCipher, cipherMap),
                     instr |-> << >>],
       answer |-> ask.answer,
       modifiers |-> <<"DEICTIC">>, visualMap |-> walkVisualNodes(num, dirs),
       usedCipherKeys |-> used]

DeicticAsks(isNight, dirs, idxMe, idxTarget, facingDir) ==
  BearingAsks(effectiveRel(isNight,
     deicticRel(facingDir,
                walkPosition(dirs, idxTarget).x - walkPosition(dirs, idxMe).x,
                walkPosition(dirs, idxTarget).y - walkPosition(dirs, idxMe).y)))

(* -------------------------------------------------------------- MOVEMENT *)
MoveKinds == {"WALK", "RIGHT", "LEFT"}

\* moves = 2 + Math.floor(Math.random() * 2)
MoveLists == UNION {[1..n -> MoveKinds] : n \in 2..3}

\* the walker [x, y, heading] after the first m instructions
RECURSIVE walker(_, _, _, _, _)
walker(x0, y0, heading0, moves, m) ==
  IF m = 0 THEN [x |-> x0, y |-> y0, heading |-> heading0]
  ELSE LET w == walker(x0, y0, heading0, moves, m - 1)
       IN  CASE moves[m] = "WALK" ->
                  [x |-> w.x + (IF w.heading = 1 THEN 1 ELSE IF w.heading = 3 THEN -1 ELSE 0),
                   y |-> w.y + (IF w.heading = 0 THEN 1 ELSE IF w.heading = 2 THEN -1 ELSE 0),
                   heading |-> w.heading]
             [] moves[m] = "RIGHT" -> [w EXCEPT !.heading = (w.heading + 1) % 4]
             [] moves[m] = "LEFT" -> [w EXCEPT !.heading = (w.heading + 3) % 4]

walkerEnd(dirs, startIdx, heading0, moves) ==
  walker(walkPosition(dirs, startIdx).x, walkPosition(dirs, startIdx).y,
         heading0, moves, Len(moves))

\* the reroll condition of the target loop
targetRejected(dirs, startIdx, targetIdx, curX, curY) ==
  targetIdx = startIdx
    \/ (walkPosition(dirs, targetIdx).x = curX /\ walkPosition(dirs, targetIdx).y = curY)

\* The loop leaves with a target that is not rejected, or with whatever was
\* drawn last once attempts has reached 50.
targetAccepted(dirs, startIdx, targetIdx, curX, curY, attempts) ==
  ~targetRejected(dirs, startIdx, targetIdx, curX, curY) \/ attempts = MaxTargetAttempts

\* rotation of the displacement into the walker's frame
movementLocal(heading, relX, relY) ==
  CASE heading = 0 -> [localX |-> relX, localY |-> relY]
    [] heading = 1 -> [localX |-> relY, localY |-> -relX]
    [] heading = 2 -> [localX |-> -relX, localY |-> -relY]
    [] heading = 3 -> [localX |-> -relY, localY |-> relX]

trueRel(localX, localY) ==
  IF localY > 0 /\ Abs(localX) <= localY THEN "FRONT"
  ELSE IF localY < 0 /\ Abs(localX) <= Abs(localY) THEN "BEHIND"
  ELSE IF localX > 0 THEN "RIGHT"
  ELSE IF localX < 0 THEN "LEFT"
  ELSE "SAME LOCATION"

movementRel(heading, relX, relY) ==
  trueRel(movementLocal(heading, relX, relY).localX,
          movementLocal(heading, relX, relY).localY)

instructions(startIdx, heading0, moves, enableCipher, cipherMap) ==
  << [key |-> "START", shown |-> getTerm("START", enableCipher, cipherMap),
      item |-> startIdx, dir |-> ""],
     [key |-> "FACE", shown |-> getTerm("FACE", enableCipher, cipherMap),
      item |-> -1,
      dir |-> getTerm(headingNames[heading0 + 1], enableCipher, cipherMap)] >>
  \o [m \in 1..Len(moves) |->
        IF moves[m] = "WALK"
        THEN [key |-> "WALK", shown |-> getTerm("WALK", enableCipher, cipherMap),
              item |-> -1, dir |-> ""]
        ELSE [key |-> "TURN", shown |-> getTerm("TURN", enableCipher, cipherMap),
              item |-> -1, dir |-> getTerm(moves[m], enableCipher, cipherMap)]]

instructionsUsed(heading0, moves, enableCipher, cipherMap) ==
  UsedBy("START", enableCipher, cipherMap) \cup UsedBy("FACE", enableCipher, cipherMap)
    \cup UsedBy(headingNames[heading0 + 1], enableCipher, cipherMap)
    \cup UNION {IF moves[m] = "WALK" THEN UsedBy("WALK", enableCipher, cipherMap)
                ELSE UsedBy("TURN", enableCipher, cipherMap)
                       \cup UsedBy(moves[m], enableCipher, cipherMap)
                : m \in 1..Len(moves)}

MovementAsks(isNight, dirs, startIdx, heading0, moves, targetIdx) ==
  LET w == walkerEnd(dirs, startIdx, heading0, moves)
  IN  BearingAsks(effectiveRel(isNight,
        movementRel(w.heading, walkPosition(dirs, targetIdx).x - w.x,
                               walkPosition(dirs, targetIdx).y - w.y)))

GenMovement(num, enableCipher, cipherMap, isNight, dirs, startIdx, heading0, moves, targetIdx, ask, k) ==
  LET used == walkUsed(num, dirs, enableCipher, cipherMap)
                \cup instructionsUsed(heading0, moves, enableCipher, cipherMap)
                \cup UsedBy(ask.key, enableCipher, cipherMap)
  IN  [premises |-> shuffleArray(walkPremises(num, dirs, enableCipher, cipherMap), k),
       question |-> [form |-> "MOVEMENT", subj |-> targetIdx, key |-> ask.key,
                     shown |-> getTerm(ask.key, enableCipher, cipherMap),
                     obj |-> startIdx, facing |-> "",
                     instr |-> instructions(startIdx, heading0, moves, enableCipher, cipherMap)],
       answer |-> ask.answer,
       modifiers |-> <<"MOVEMENT">>, visualMap |-> walkVisualNodes(num, dirs),
       usedCipherKeys |-> used]

(* -------------------------------------------------------------- STANDARD *)
\* A variant with EAST and WEST exchanged.
standardPartsMirrored(is3D, diffX, diffY, diffZ) ==
  (IF is3D /\ diffZ > 0 THEN <<"ABOVE">> ELSE IF is3D /\ diffZ < 0 THEN <<"BELOW">> ELSE << >>)
    \o (IF diffY > 0 THEN <<"NORTH">> ELSE IF diffY < 0 THEN <<"SOUTH">> ELSE << >>)
    \o (IF diffX > 0 THEN <<"WEST">> ELSE IF diffX < 0 THEN <<"EAST">> ELSE << >>)

\* parts, in the order the code pushes them
standardParts(is3D, diffX, diffY, diffZ) ==
  (IF is3D /\ diffZ > 0 THEN <<"ABOVE">> ELSE IF is3D /\ diffZ < 0 THEN <<"BELOW">> ELSE << >>)
    \o (IF diffY > 0 THEN <<"NORTH">> ELSE IF diffY < 0 THEN <<"SOUTH">> ELSE << >>)
    \o (IF diffX > 0 THEN <<"EAST">> ELSE IF diffX < 0 THEN <<"WEST">> ELSE << >>)

effectiveParts(isNight, parts) == IF isNight THEN invertSpatial(parts) ELSE parts

allDirs(is3D) ==
  IF is3D THEN {"NORTH", "SOUTH", "EAST", "WEST", "ABOVE", "BELOW"}
  ELSE {"NORTH", "SOUTH", "EAST", "WEST"}

Elems(seq) == {seq[i] : i \in 1..Len(seq)}

\* the true branch needs a non-empty effectiveParts; the false branch redraws
\* fakeRaw until it is not among effectiveParts.
StandardAsksOf(is3D, effParts) ==
  {[key |-> partToAsk, answer |-> TRUE] : partToAsk \in Elems(effParts)}
    \cup {[key |-> fakeRaw, answer |-> FALSE] : fakeRaw \in allDirs(is3D) \ Elems(effParts)}

StandardAsks(is3D, isNight, dirs, idxA, idxB) ==
  StandardAsksOf(is3D, effectiveParts(isNight,
     standardParts(is3D,
                   walkPosition(dirs, idxB).x - walkPosition(dirs, idxA).x,
                   walkPosition(dirs, idxB).y - walkPosition(dirs, idxA).y,
                   walkPosition(dirs, idxB).z - walkPosition(dirs, idxA).z)))

GenStandard(num, enableCipher, cipherMap, dirs, idxA, idxB, ask, k) ==
  LET used == walkUsed(num, dirs, enableCipher, cipherMap)
                \cup UsedBy(ask.key, enableCipher, cipherMap)
  IN  [premises |-> shuffleArray(walkPremises(num, dirs, enableCipher, cipherMap), k),
       question |-> [form |-> "IS_OF", subj |-> idxB, key |-> ask.key,
                     shown |-> getTerm(ask.key, enableCipher, cipherMap),
                     obj |-> idxA, facing |-> "", instr |-> << >>],
       answer |-> ask.answer,
       modifiers |-> << >>, visualMap |-> walkVisualNodes(num, dirs),
       usedCipherKeys |-> used]

(* --------------------------------------------------------- generateLogic *)
\* generateLogic(mode, num, cipherMap, isNight) under the settings it reads
\* (enableCipher, enableDeictic, enableMovement): logicData is one of the values
\* the call can return, one for every outcome of its random draws.
LinearRounds(logicData, num, enableCipher, cipherMap, isNight) ==
  \E rels \in [1..num -> {"GREATER", "LESS"}], ab \in getDistinctRandomIndices(num + 1),
     qType \in {"GREATER", "LESS"}, k \in Shifts(num) :
       logicData = GenLinear(num, enableCipher, cipherMap, isNight, rels, ab[1], ab[2],
                             qType, k)

DistinctionRounds(logicData, num, enableCipher, cipherMap, isNight) ==
  \E v0 \in {0, 1}, sames \in [1..num -> BOOLEAN],
     ab \in getDistinctRandomIndices(num + 1),
     qType \in {"SAME", "DIFFERENT"}, k \in Shifts(num) :
       logicData = GenDistinction(num, enableCipher, cipherMap, isNight, v0, sames,
                                  ab[1], ab[2], qType, k)

HierarchyRounds(logicData, num, enableCipher, cipherMap, isNight) ==
  \E ab \in getDistinctRandomIndices(num + 1), askInside \in BOOLEAN, k \in Shifts(num) :
       logicData = GenHierarchy(num, enableCipher, cipherMap, isNight, ab[1], ab[2],
                                askInside, k)

StandardRounds(logicData, num, is3D, enableCipher, cipherMap, isNight) ==
  \E dirs \in [1..num -> WalkDirs(is3D)], ab \in getDistinctRandomIndices(num + 1) :
    \E ask \in StandardAsks(is3D, isNight, dirs, ab[1], ab[2]), k \in Shifts(num) :
       logicData = GenStandard(num, enableCipher, cipherMap, dirs, ab[1], ab[2], ask, k)

DeicticRounds(logicData, num, is3D, enableCipher, cipherMap, isNight) ==
  \E dirs \in [1..num -> WalkDirs(is3D)], ab \in getDistinctRandomIndices(num + 1),
     facingDir \in 0..3 :
    \E ask \in DeicticAsks(isNight, dirs, ab[1], ab[2], facingDir), k \in Shifts(num) :
       logicData = GenDeictic(num, enableCipher, cipherMap, isNight, dirs, ab[1], ab[2],
                              facingDir, ask, k)

\* the indices the target loop can end with
MovementTargets(num, dirs, startIdx, heading0, moves) ==
  {t \in 0..num :
     \E attempts \in {0, MaxTargetAttempts} :
        targetAccepted(dirs, startIdx, t,
                       walkerEnd(dirs, startIdx, heading0, moves).x,
                       walkerEnd(dirs, startIdx, heading0, moves).y, attempts)}

MovementRounds(logicData, num, enableCipher, cipherMap, isNight) ==
  \E dirs \in [1..num -> WalkDirs(FALSE)], startIdx \in 0..num, heading0 \in 0..3,
     moves \in MoveLists :
    \E targetIdx \in MovementTargets(num, dirs, startIdx, heading0, moves) :
      \E ask \in MovementAsks(isNight, dirs, startIdx, heading0, moves, targetIdx),
         k \in Shifts(num) :
           logicData = GenMovement(num, enableCipher, cipherMap, isNight, dirs, startIdx,
                                   heading0, moves, targetIdx, ask, k)

SpatialRounds(logicData, selectedType, num, is3D, enableCipher, cipherMap, isNight) ==
  IF selectedType = "DEICTIC"
  THEN DeicticRounds(logicData, num, is3D, enableCipher, cipherMap, isNight)
  ELSE IF selectedType = "MOVEMENT"
  THEN MovementRounds(logicData, num, enableCipher, cipherMap, isNight)
  ELSE StandardRounds(logicData, num, is3D, enableCipher, cipherMap, isNight)

generateLogic(logicData, mode, num, cipherMap, isNight, enableCipher, enableDeictic, enableMovement) ==
  IF mode = "LINEAR"
  THEN LinearRounds(logicData, num, enableCipher, cipherMap, isNight)
  ELSE IF mode = "DISTINCTION"
  THEN DistinctionRounds(logicData, num, enableCipher, cipherMap, isNight)
  ELSE IF mode = "HIERARCHY"
  THEN HierarchyRounds(logicData, num, enableCipher, cipherMap, isNight)
  ELSE \E selectedType \in availableTypes(enableDeictic, enableMovement,
                                          mode = "SPATIAL_3D") :
         SpatialRounds(logicData, selectedType, num, mode = "SPATIAL_3D", enableCipher,
                       cipherMap, isNight)

(* ------------------------------------------------------------------ state *)
VARIABLES
  args,                      \* the arguments drawn for a generateLogic call
  geoIn, geo,                \* a displacement and heading, and their bearings
  inv,                       \* a relation, and invertSpatial applied once and twice
  loop,                      \* one run of a redraw loop of the generator
  phase, settings, history, sessionLog,
  round,                     \* premises, currentQuestion, currentVisualMap, activeCipherKeys
  expectedAnswerRef, currentRoundMode, contextIsNight, activeModifiers,
  currentCipherMap, cipherHasChanged,
  currentScore, questionsAttempted, maxDepthReached,
  progressCount, mistakeCount,
  sessionTimerRef, questionSecondsRemaining,
  sessionInterval, questionInterval, interferenceInterval,
  interferenceTargetColor, interferenceCurrentColor, interferenceStatus,
  signalHandler,             \* the closure of the INTERFERENCE key listener
  pendingStart,              \* setTimeout(startQuestionPhase, 200) not yet run
  alerts,                    \* how many times alert("Enable a logic module.") has run
  roundSettings,             \* the settings startRound generated the round from
  sessionsStarted            \* how many times startSession has run

harnessVars == <<args, geoIn, geo, inv, loop>>

exploredVars == <<harnessVars, sessionsStarted>>

roundNotes == <<alerts, roundSettings>>

roundVars == <<round, expectedAnswerRef, currentRoundMode, contextIsNight, cipherHasChanged>>

scoreVars ==
  <<currentScore, questionsAttempted, maxDepthReached, progressCount, mistakeCount,
    sessionLog>>

interferenceShown ==
  <<interferenceTargetColor, interferenceCurrentColor, interferenceStatus, signalHandler>>

interferenceVars == <<interferenceShown, interferenceInterval>>

vars ==
  <<args, geoIn, geo, inv, loop, phase, settings, history, sessionLog, round, expectedAnswerRef,
    currentRoundMode, contextIsNight, activeModifiers, currentCipherMap,
    cipherHasChanged, currentScore, questionsAttempted, maxDepthReached,
    progressCount, mistakeCount, sessionTimerRef, questionSecondsRemaining,
    sessionInterval, questionInterval, interferenceInterval,
    interferenceTargetColor, interferenceCurrentColor, interferenceStatus,
    signalHandler, pendingStart, alerts, roundSettings, sessionsStarted>>

(* --------------------------------------------------------------- settings *)
\* activeModes is kept as the set of enabled modes; symbolMode is left out
\* (items are their indices).
DEFAULT_SETTINGS ==
  [activeModes |-> {"LINEAR", "DISTINCTION", "SPATIAL_2D", "HIERARCHY"},
   numPremises |-> 2, autoProgress |-> TRUE, useQuestionTimer |-> TRUE,
   questionTimeLimit |-> 15, sessionLengthMinutes |-> 5,
   disableSessionTimer |-> FALSE, blindMode |-> FALSE, enableDeictic |-> FALSE,
   enableTransformation |-> FALSE, enableInterference |-> FALSE,
   enableCipher |-> FALSE, enableMovement |-> FALSE]

SecondsPerMinute == 60

MinQuestionTime == 3

colors == {"red", "blue", "green", "yellow"}

\* The colours the random draws of the model range over.
ColorDraws == {c \in colors : c \in {"red", "blue"}}

(* --------------------------------------------------------------- closures *)
\* What a handleAnswer / startQuestionPhase created in the current render
\* reads from that render.
Closure ==
  [settings |-> settings, progressCount |-> progressCount, mistakeCount |-> mistakeCount]

NoClosure ==
  [settings |-> DEFAULT_SETTINGS, progressCount |-> 0, mistakeCount |-> 0]

\* What an endSession created in the current render reads from that render.
EndClosure ==
  [currentScore |-> currentScore, questionsAttempted |-> questionsAttempted,
   maxDepthReached |-> maxDepthReached, activeModifiers |-> activeModifiers,
   sessionLog |-> sessionLog, activeModes |-> settings.activeModes]

NoEndClosure ==
  [currentScore |-> 0, questionsAttempted |-> 0, maxDepthReached |-> 2,
   activeModifiers |-> << >>, sessionLog |-> << >>, activeModes |-> {}]

TimerOff == [armed |-> FALSE, cl |-> NoClosure]

SessionTimerOff == [armed |-> FALSE, disableSessionTimer |-> FALSE, end |-> NoEndClosure]

NoArgs ==
  [mode |-> "", num |-> 0, isNight |-> FALSE, enableCipher |-> FALSE,
   cipherMap |-> EmptyMap, enableDeictic |-> FALSE, enableMovement |-> FALSE]

NoGeoIn == [dx |-> 0, dy |-> 0, h |-> 0, isNight |-> FALSE]

NoGeo == [done |-> FALSE, deictic |-> "", movement |-> "", key |-> "", answer |-> FALSE]

NoInv == [done |-> FALSE, rel |-> << >>, once |-> << >>, twice |-> << >>]

NoLoop == [pc |-> "none"]

\* The state after construction, with the settings s loaded from storage.
Constructed(s) ==
  /\ phase = "SETUP"
  /\ settings = s
  /\ history = << >>
  /\ sessionLog = << >>
  /\ round = NoRound
  /\ expectedAnswerRef = FALSE
  /\ currentRoundMode = "LINEAR"
  /\ contextIsNight = FALSE
  /\ activeModifiers = << >>
  /\ currentCipherMap = EmptyMap
  /\ cipherHasChanged = FALSE
  /\ currentScore = 0
  /\ questionsAttempted = 0
  /\ maxDepthReached = 2
  /\ progressCount = 0
  /\ mistakeCount = 0
  /\ sessionTimerRef = 0
  /\ questionSecondsRemaining = 0
  /\ sessionInterval = SessionTimerOff
  /\ questionInterval = TimerOff
  /\ interferenceInterval = FALSE
  /\ interferenceTargetColor = ""
  /\ interferenceCurrentColor = ""
  /\ interferenceStatus = "WAIT"
  /\ signalHandler = NoClosure
  /\ pendingStart = << >>
  /\ alerts = 0
  /\ roundSettings = DEFAULT_SETTINGS
  /\ sessionsStarted = 0

(* --------------------------------------------------------------- startRound *)
\* The storing step of src/unnamed/part_001: the boolean is flipped when the
\* round is a night round.
storedAnswerFlipped(logicData, isNight) ==
  IF isNight THEN ~logicData.answer ELSE logicData.answer

\* expectedAnswerRef.current = logicData.answer
storedAnswer(logicData, isNight) == logicData.answer

\* mods = [...logicData.modifiers] (+ KEY_CHANGE) (+ TRANSFORM)
roundModifiers(logicData, roundCipherChanged, isNight) ==
  logicData.modifiers
    \o (IF roundCipherChanged THEN <<"KEY_CHANGE">> ELSE << >>)
    \o (IF isNight THEN <<"TRANSFORM">> ELSE << >>)

\* isNight = settings.enableTransformation ? Math.random() > 0.5 : false
NightDraws(enableTransformation) == IF enableTransformation THEN BOOLEAN ELSE {FALSE}

\* The cipher step of startRound, from the currentCipherMap and
\* questionsAttempted of the render startRound closes over.
CipherDraws(enableCipher, capMap, capAttempted) ==
  IF enableCipher /\ DOMAIN capMap = {}
  THEN {[new |-> TRUE, changed |-> FALSE, k |-> k] : k \in Shifts(Len(CIPHER_WORDS))}
  ELSE IF enableCipher /\ capAttempted > 0
  THEN {[new |-> FALSE, changed |-> FALSE, k |-> 0]}
         \cup {[new |-> TRUE, changed |-> TRUE, k |-> k] : k \in Shifts(Len(CIPHER_WORDS))}
  ELSE {[new |-> FALSE, changed |-> FALSE, k |-> 0]}

\* A variant that falls back to LINEAR when no module is enabled.
enabledModesOrLinear(activeModes) ==
  IF activeModes = {} THEN {"LINEAR"} ELSE {k \in RftModes : k \in activeModes}

\* Object.keys(settings.activeModes).filter(k => settings.activeModes[k])
enabledModes(activeModes) == {k \in RftModes : k \in activeModes}

\* A variant that looks at blind mode alone.
memorizesBlindOnly(blindMode, roundCipherChanged) == blindMode

\* if (settings.blindMode || roundCipherChanged) setPhase("PREMISE_MEMORIZE")
memorizes(blindMode, roundCipherChanged) == blindMode \/ roundCipherChanged

\* startQuestionPhase as closed over in cl; qsr is questionSecondsRemaining
\* as the handler has left it so far.
startQuestionPhase(cl, qsr) ==
  /\ phase' = "QUESTION"
  /\ IF cl.settings.useQuestionTimer
     THEN /\ questionInterval' = [armed |-> TRUE, cl |-> cl]
          /\ questionSecondsRemaining' = cl.settings.questionTimeLimit
     ELSE /\ questionInterval' = questionInterval
          /\ questionSecondsRemaining' = qsr

\* startInterference; after is the closure of the render that follows, which
\* the INTERFERENCE key listener is created in.
startInterference(mods, after) ==
  /\ phase' = "INTERFERENCE"
  /\ activeModifiers' = Append(mods, "INTERFERENCE")
  /\ interferenceStatus' = "WAIT"
  /\ interferenceTargetColor' \in ColorDraws
  /\ interferenceInterval' = TRUE
  /\ signalHandler' = after
  /\ UNCHANGED interferenceCurrentColor

\* settings.enableInterference ? startInterference() : startQuestionPhase()
Proceed(cl, after, mods, qsr) ==
  IF cl.settings.enableInterference
  THEN /\ startInterference(mods, after)
       /\ questionSecondsRemaining' = qsr
       /\ UNCHANGED questionInterval
  ELSE /\ startQuestionPhase(cl, qsr)
       /\ activeModifiers' = mods
       /\ UNCHANGED interferenceVars

\* startRound after its expiry check.  capMap and capAttempted are the
\* currentCipherMap and questionsAttempted of the render the caller closes
\* over, baseMap the map the caller itself has set (or capMap), cl the
\* caller's closure and after the closure of the next render.
startRoundBody(capMap, capAttempted, baseMap, cl, after) ==
  IF enabledModes(cl.settings.activeModes) = {}
  THEN /\ alerts' = alerts + 1
       /\ currentCipherMap' = baseMap
       /\ UNCHANGED <<phase, roundVars, activeModifiers, questionSecondsRemaining,
                      questionInterval, interferenceVars, roundSettings>>
  ELSE \E nextMode \in enabledModes(cl.settings.activeModes),
          draw \in CipherDraws(cl.settings.enableCipher, capMap, capAttempted),
          isNight \in NightDraws(cl.settings.enableTransformation) :
         LET roundCipherMap == IF draw.new THEN cipherKeys[draw.k] ELSE capMap
         IN  /\ generateLogic(round', nextMode, cl.settings.numPremises,
                              roundCipherMap, isNight, cl.settings.enableCipher,
                              cl.settings.enableDeictic, cl.settings.enableMovement)
             /\ roundSettings' = cl.settings
             /\ UNCHANGED alerts
             /\ currentRoundMode' = nextMode
             /\ currentCipherMap' = IF draw.new THEN roundCipherMap ELSE baseMap
             /\ cipherHasChanged' = draw.changed
             /\ contextIsNight' = isNight
             /\ expectedAnswerRef' = storedAnswer(round', isNight)
             /\ IF memorizes(cl.settings.blindMode, draw.changed)
                THEN /\ phase' = "PREMISE_MEMORIZE"
                     /\ activeModifiers' = roundModifiers(round', draw.changed, isNight)
                     /\ questionSecondsRemaining' = cl.settings.questionTimeLimit
                     /\ UNCHANGED <<questionInterval, interferenceVars>>
                ELSE Proceed(cl, after, roundModifiers(round', draw.changed, isNight),
                             cl.settings.questionTimeLimit)

(* --------------------------------------------------------------- endSession *)
\* Math.round(correct / attempted * 100)
accuracy(correct, attempted) ==
  IF attempted > 0 THEN (200 * correct + attempted) \div (2 * attempted) ELSE 0

histRecord(end) ==
  [totalScore |-> end.currentScore,
   accuracy |-> accuracy(Cardinality({i \in 1..Len(end.sessionLog) :
                                        end.sessionLog[i].isCorrect}),
                         end.questionsAttempted),
   questionsAnswered |-> end.questionsAttempted,
   highestDepth |-> end.maxDepthReached,
   activeModes |-> end.activeModes,
   activeModifiers |-> end.activeModifiers]

\* endSession as closed over in end
endSession(end) ==
  /\ sessionInterval' = SessionTimerOff
  /\ questionInterval' = TimerOff
  /\ interferenceInterval' = FALSE
  /\ history' = Append(history, histRecord(end))
  /\ phase' = "SESSION_END"

(* ------------------------------------------------------------- handleAnswer *)
Max(a, b) == IF a >= b THEN a ELSE b

newLog(userAnswer, correct) ==
  [userAnswer |-> userAnswer,
   correctAnswer |-> IF expectedAnswerRef THEN "YES" ELSE "NO",
   isCorrect |-> correct]

\* A variant that levels up on the second correct answer of a streak.
levelsUpEarly(correct, autoProgress, progress) ==
  correct /\ autoProgress /\ progress >= 1

\* if (correct) ... if (settings.autoProgress) { if (progressCount >= 2) ...
levelsUp(correct, autoProgress, progress) ==
  correct /\ autoProgress /\ progress >= 2

\* handleAnswer as closed over in cl; userAnswer is "YES", "NO" or, for
\* handleAnswer(null), "TIMEOUT".  questionSecondsRemaining is left to the
\* caller.
handleAnswer(userAnswer, cl) ==
  LET correct == userAnswer = (IF expectedAnswerRef THEN "YES" ELSE "NO")
      auto == cl.settings.autoProgress
      up == levelsUp(correct, auto, cl.progressCount)
      fallback == ~correct /\ auto /\ cl.settings.numPremises > 2
      down == fallback /\ cl.mistakeCount >= 1
  IN  /\ questionInterval' = TimerOff
      /\ questionsAttempted' = questionsAttempted + 1
      /\ currentScore' = IF correct
                         THEN currentScore + cl.settings.numPremises * 10
                         ELSE Max(0, currentScore - 20)
      /\ mistakeCount' = IF correct \/ down THEN 0
                         ELSE IF fallback THEN mistakeCount + 1
                         ELSE mistakeCount
      /\ progressCount' = IF ~correct \/ up THEN 0
                          ELSE IF auto THEN progressCount + 1
                          ELSE progressCount
      /\ settings' = IF up THEN [settings EXCEPT !.numPremises = @ + 1]
                     ELSE IF down THEN [settings EXCEPT !.numPremises = @ - 1]
                     ELSE settings
      /\ maxDepthReached' = IF up THEN Max(maxDepthReached, cl.settings.numPremises + 1)
                            ELSE maxDepthReached
      /\ sessionLog' = <<newLog(userAnswer, correct)>> \o sessionLog
      /\ phase' = "RESULT"
      /\ UNCHANGED <<history, roundVars, activeModifiers, currentCipherMap,
                     sessionTimerRef, sessionInterval, interferenceVars,
                     pendingStart, exploredVars, roundNotes>>

(* ------------------------------------------------------------------ bounds *)
MaxQuestions == 2

MaxSessions == 1

MaxPending == 1

MaxAlerts == 1

MaxDepth == 3             \* deepest Starting Depth the + button is pressed to

MaxAdaptQuestions == 3    \* answers per session of the adaptive-depth runs

MaxHits == 2              \* hits of one interference phase whose timeouts are outstanding

(* ----------------------------------------------------------------- actions *)
\* A variant of startSession that keeps the log of the session before.
startSessionKeepsLog ==
  /\ LET duration == settings.sessionLengthMinutes * SecondsPerMinute
     IN  /\ currentScore' = 0
         /\ progressCount' = 0
         /\ mistakeCount' = 0
         /\ questionsAttempted' = 0
         /\ maxDepthReached' = settings.numPremises
         /\ sessionLog' = sessionLog
         /\ sessionTimerRef' = duration
         /\ UNCHANGED <<settings, pendingStart, harnessVars>>
         /\ \E k \in Shifts(Len(CIPHER_WORDS)) :
              IF ~settings.disableSessionTimer /\ duration <= 0
              THEN /\ endSession(EndClosure)
                   /\ currentCipherMap' = cipherKeys[k]
                   /\ UNCHANGED <<roundVars, activeModifiers, questionSecondsRemaining,
                                  interferenceShown, roundNotes>>
              ELSE /\ sessionInterval' =
                        [armed |-> TRUE,
                         disableSessionTimer |-> settings.disableSessionTimer,
                         end |-> EndClosure]
                   /\ startRoundBody(currentCipherMap, questionsAttempted,
                                     cipherKeys[k], Closure,
                                     [Closure EXCEPT !.progressCount = 0,
                                                     !.mistakeCount = 0])
                   /\ UNCHANGED history

\* startSession, with the startRound it ends in
startSession ==
  /\ LET duration == settings.sessionLengthMinutes * SecondsPerMinute
     IN  /\ currentScore' = 0
         /\ progressCount' = 0
         /\ mistakeCount' = 0
         /\ questionsAttempted' = 0
         /\ maxDepthReached' = settings.numPremises
         /\ sessionLog' = << >>
         /\ sessionTimerRef' = duration
         /\ UNCHANGED <<settings, pendingStart, harnessVars>>
         /\ \E k \in Shifts(Len(CIPHER_WORDS)) :
              IF ~settings.disableSessionTimer /\ duration <= 0
              THEN /\ endSession(EndClosure)
                   /\ currentCipherMap' = cipherKeys[k]
                   /\ UNCHANGED <<roundVars, activeModifiers, questionSecondsRemaining,
                                  interferenceShown, roundNotes>>
              ELSE /\ sessionInterval' =
                        [armed |-> TRUE,
                         disableSessionTimer |-> settings.disableSessionTimer,
                         end |-> EndClosure]
                   /\ startRoundBody(currentCipherMap, questionsAttempted,
                                     cipherKeys[k], Closure,
                                     [Closure EXCEPT !.progressCount = 0,
                                                     !.mistakeCount = 0])
                   /\ UNCHANGED history

\* Enter in SETUP, or the start button
StartSession ==
  /\ phase = "SETUP"
  /\ sessionsStarted < MaxSessions
  /\ sessionsStarted' = sessionsStarted + 1
  /\ startSession

\* startRound as the RESULT key handler and the NEXT button call it
startRound ==
  /\ IF ~settings.disableSessionTimer /\ sessionTimerRef <= 0
     THEN /\ endSession(EndClosure)
          /\ UNCHANGED <<settings, roundVars, activeModifiers, currentCipherMap,
                         scoreVars, sessionTimerRef, questionSecondsRemaining,
                         interferenceShown, pendingStart, exploredVars, roundNotes>>
     ELSE /\ startRoundBody(currentCipherMap, questionsAttempted, currentCipherMap,
                            Closure, Closure)
          /\ UNCHANGED <<settings, history, scoreVars, sessionTimerRef,
                         sessionInterval, pendingStart, exploredVars>>

\* Enter or Space in RESULT, or the NEXT button
NextRound ==
  /\ phase = "RESULT"
  /\ questionsAttempted < MaxQuestions
  /\ alerts < MaxAlerts
  /\ startRound

\* Space or Enter in PREMISE_MEMORIZE, or the READY button
Ready ==
  /\ phase = "PREMISE_MEMORIZE"
  /\ Proceed(Closure, Closure, activeModifiers, questionSecondsRemaining)
  /\ UNCHANGED <<settings, history, roundVars, currentCipherMap, scoreVars,
                 sessionTimerRef, sessionInterval, pendingStart, exploredVars, roundNotes>>

\* An answer key in QUESTION, or the YES / NO button
Answer ==
  /\ phase = "QUESTION"
  /\ \E userAnswer \in {"YES", "NO"} : handleAnswer(userAnswer, Closure)
  /\ UNCHANGED questionSecondsRemaining

\* One run of the callback of the question interval
QuestionTick ==
  /\ questionInterval.armed
  /\ IF questionSecondsRemaining <= 1
     THEN /\ handleAnswer("TIMEOUT", questionInterval.cl)
          /\ questionSecondsRemaining' = 0
     ELSE /\ questionSecondsRemaining' = questionSecondsRemaining - 1
          /\ UNCHANGED <<phase, settings, history, roundVars, activeModifiers,
                         currentCipherMap, scoreVars, sessionTimerRef,
                         sessionInterval, questionInterval, interferenceVars,
                         pendingStart, exploredVars, roundNotes>>

\* One run of the callback of the interference interval
InterferenceTick ==
  /\ interferenceInterval
  /\ interferenceCurrentColor' \in ColorDraws
  /\ interferenceStatus' = "WAIT"
  /\ UNCHANGED <<phase, settings, history, roundVars, activeModifiers,
                 currentCipherMap, scoreVars, sessionTimerRef,
                 questionSecondsRemaining, sessionInterval, questionInterval,
                 interferenceInterval, interferenceTargetColor, signalHandler,
                 pendingStart, exploredVars, roundNotes>>

\* The keydown listener of the INTERFERENCE effect on Space; limit bounds
\* the timeouts outstanding.
signalInterference(limit) ==
  /\ IF interferenceCurrentColor = interferenceTargetColor
     THEN /\ Len(pendingStart) < limit
          /\ interferenceInterval' = FALSE
          /\ interferenceStatus' = "HIT"
          /\ pendingStart' = Append(pendingStart, signalHandler)
     ELSE /\ interferenceStatus' = "MISS"
          /\ UNCHANGED <<interferenceInterval, pendingStart>>
  /\ UNCHANGED <<phase, settings, history, roundVars, activeModifiers,
                 currentCipherMap, scoreVars, sessionTimerRef,
                 questionSecondsRemaining, sessionInterval, questionInterval,
                 interferenceTargetColor, interferenceCurrentColor, signalHandler,
                 exploredVars, roundNotes>>

\* Space in INTERFERENCE
InterferenceSignal ==
  /\ phase = "INTERFERENCE"
  /\ signalInterference(MaxPending)

\* The setTimeout(startQuestionPhase, 200) of a hit comes due
PendingStartFire ==
  /\ pendingStart # << >>
  /\ startQuestionPhase(Head(pendingStart), questionSecondsRemaining)
  /\ pendingStart' = Tail(pendingStart)
  /\ UNCHANGED <<settings, history, roundVars, activeModifiers, currentCipherMap,
                 scoreVars, sessionTimerRef, sessionInterval, interferenceVars,
                 exploredVars, roundNotes>>

\* One run of the callback of the session interval
SessionTick ==
  /\ sessionInterval.armed
  /\ IF sessionInterval.disableSessionTimer
     THEN UNCHANGED <<phase, history, sessionTimerRef, sessionInterval,
                      questionInterval, interferenceInterval>>
     ELSE /\ sessionTimerRef' = sessionTimerRef - 1
          /\ IF sessionTimerRef - 1 <= 0
             THEN endSession(sessionInterval.end)
             ELSE UNCHANGED <<phase, history, sessionInterval, questionInterval,
                              interferenceInterval>>
  /\ UNCHANGED <<settings, roundVars, activeModifiers, currentCipherMap, scoreVars,
                 questionSecondsRemaining, interferenceShown, pendingStart,
                 exploredVars, roundNotes>>

\* The ABORT button of the header
Abort ==
  /\ phase \notin {"SETUP", "SESSION_END"}
  /\ phase' = "SETUP"
  /\ UNCHANGED <<settings, history, roundVars, activeModifiers, currentCipherMap,
                 scoreVars, sessionTimerRef, questionSecondsRemaining,
                 sessionInterval, questionInterval, interferenceVars, pendingStart,
                 exploredVars, roundNotes>>

\* Enter in SESSION_END, or the RETURN TO MENU button
ReturnToMenu ==
  /\ phase = "SESSION_END"
  /\ phase' = "SETUP"
  /\ UNCHANGED <<settings, history, roundVars, activeModifiers, currentCipherMap,
                 scoreVars, sessionTimerRef, questionSecondsRemaining,
                 sessionInterval, questionInterval, interferenceVars, pendingStart,
                 exploredVars, roundNotes>>

(* ------------------------------------------------------ the settings panel *)
\* What a control of the CONFIG panel leaves alone: everything but settings.
\* The header offers the panel in every phase.
panelFrame ==
  UNCHANGED <<phase, history, roundVars, activeModifiers, currentCipherMap,
              scoreVars, sessionTimerRef, questionSecondsRemaining,
              sessionInterval, questionInterval, interferenceVars, pendingStart,
              exploredVars, roundNotes>>

\* The - button of Starting Depth
DepthDown ==
  /\ settings' = [settings EXCEPT !.numPremises = Max(2, @ - 1)]
  /\ panelFrame

\* The + button of Starting Depth
DepthUp ==
  /\ settings.numPremises < MaxDepth
  /\ settings' = [settings EXCEPT !.numPremises = @ + 1]
  /\ panelFrame

\* The Interference checkbox
ToggleInterference ==
  /\ settings' = [settings EXCEPT !.enableInterference = ~@]
  /\ panelFrame

\* The Timer checkbox of the question timer
ToggleQuestionTimer ==
  /\ settings' = [settings EXCEPT !.useQuestionTimer = ~@]
  /\ panelFrame

\* The checkbox of the HIERARCHY module
ToggleModule ==
  /\ settings' = [settings EXCEPT !.activeModes =
                     IF "HIERARCHY" \in @ THEN @ \ {"HIERARCHY"}
                     ELSE @ \cup {"HIERARCHY"}]
  /\ panelFrame

(* ------------------------------------------------- generateLogic on its own *)
CipherArgs ==
  {[enableCipher |-> FALSE, cipherMap |-> EmptyMap],
   [enableCipher |-> TRUE, cipherMap |-> cipherKeys[1]]}

ArgsOf(modes, depths, nights, ciphers, enableDeictic, enableMovement) ==
  {[mode |-> m, num |-> n, isNight |-> b, enableCipher |-> c.enableCipher,
    cipherMap |-> c.cipherMap, enableDeictic |-> enableDeictic,
    enableMovement |-> enableMovement] :
     m \in modes, n \in depths, b \in nights, c \in ciphers}

\* The calls explored: the three chain modes and the STANDARD and DEICTIC
\* sub-modes at every depth from the least one the depth control allows.
GenArgs ==
  ArgsOf({"LINEAR", "DISTINCTION", "HIERARCHY"}, 2..MaxLinks, BOOLEAN, CipherArgs,
         FALSE, FALSE)
    \cup ArgsOf({"SPATIAL_2D", "SPATIAL_3D"}, 2..MaxWalk, BOOLEAN, CipherArgs, FALSE, FALSE)
    \cup ArgsOf({"SPATIAL_2D", "SPATIAL_3D"}, 2..MaxWalk, BOOLEAN,
                {c \in CipherArgs : ~c.enableCipher}, TRUE, FALSE)

\* The calls that select the MOVEMENT sub-mode, at the default depth.
MoveArgs ==
  ArgsOf({"SPATIAL_2D"}, {DEFAULT_SETTINGS.numPremises}, BOOLEAN,
         {c \in CipherArgs : ~c.enableCipher}, FALSE, TRUE)

\* The spatial calls under night mode, in all three sub-modes.
NightArgs ==
  {a \in GenArgs \cup MoveArgs :
     a.isNight /\ a.mode \in {"SPATIAL_2D", "SPATIAL_3D"} /\ a.num = DEFAULT_SETTINGS.numPremises}

\* One call of generateLogic from startRound, with what startRound stores of
\* its result.
GenerateRound ==
  /\ args # NoArgs
  /\ round = NoRound
  /\ generateLogic(round', args.mode, args.num, args.cipherMap, args.isNight,
                   args.enableCipher, args.enableDeictic, args.enableMovement)
  /\ expectedAnswerRef' = storedAnswer(round', args.isNight)
  /\ currentRoundMode' = args.mode
  /\ contextIsNight' = args.isNight
  /\ activeModifiers' = roundModifiers(round', FALSE, args.isNight)
  /\ UNCHANGED <<phase, settings, history, currentCipherMap, cipherHasChanged,
                 scoreVars, sessionTimerRef, questionSecondsRemaining,
                 sessionInterval, questionInterval, interferenceVars, pendingStart,
                 exploredVars, roundNotes>>

InitGen ==
  /\ Constructed(DEFAULT_SETTINGS)
  /\ args \in GenArgs
  /\ geoIn = NoGeoIn
  /\ geo = NoGeo
  /\ inv = NoInv
  /\ loop = NoLoop

NextGen == GenerateRound

SpecGen == InitGen /\ [][NextGen]_vars

InitNight ==
  /\ Constructed(DEFAULT_SETTINGS)
  /\ args \in NightArgs
  /\ geoIn = NoGeoIn
  /\ geo = NoGeo
  /\ inv = NoInv
  /\ loop = NoLoop

NextNight == GenerateRound

SpecNight == InitNight /\ [][NextNight]_vars

(* --------------------------------------------- the bearing functions alone *)
GeoInputs ==
  [dx : -MaxDisp..MaxDisp, dy : -MaxDisp..MaxDisp, h : 0..3, isNight : BOOLEAN]

\* The DEICTIC and the MOVEMENT bearing of one displacement, the observer
\* facing and the walker heading the same way, and one query built on the
\* DEICTIC one.
ComputeBearings ==
  /\ ~geo.done
  /\ \E ask \in BearingAsks(effectiveRel(geoIn.isNight,
                                         deicticRel(geoIn.h, geoIn.dx, geoIn.dy))) :
       geo' = [done |-> TRUE,
               deictic |-> deicticRel(geoIn.h, geoIn.dx, geoIn.dy),
               movement |-> movementRel(geoIn.h, geoIn.dx, geoIn.dy),
               key |-> ask.key, answer |-> ask.answer]
  /\ UNCHANGED <<args, geoIn, inv, loop, phase, settings, history, roundVars, activeModifiers,
                 currentCipherMap, scoreVars, sessionTimerRef,
                 questionSecondsRemaining, sessionInterval, questionInterval,
                 interferenceVars, pendingStart, sessionsStarted, roundNotes>>

InitGeo ==
  /\ Constructed(DEFAULT_SETTINGS)
  /\ args = NoArgs
  /\ geoIn \in GeoInputs
  /\ geo = NoGeo
  /\ inv = NoInv
  /\ loop = NoLoop

NextGeo == ComputeBearings

SpecGeo == InitGeo /\ [][NextGeo]_vars

(* ----------------------------------------------------------- the controller *)
\* Settings as the settings panel can leave them: one module enabled, the
\* shortest question limit and session length the panel allows.
SettingsOf(timers, untimed, blinds, interferences) ==
  {[DEFAULT_SETTINGS EXCEPT !.activeModes = {"HIERARCHY"},
                            !.questionTimeLimit = MinQuestionTime,
                            !.sessionLengthMinutes = 1,
                            !.useQuestionTimer = t, !.disableSessionTimer = d,
                            !.blindMode = b, !.enableInterference = i] :
     t \in timers, d \in untimed, b \in blinds, i \in interferences}

\* Sessions without a session limit under every combination of the question
\* timer, blind mode and interference, and one plain session with a limit.
SpecSettings ==
  SettingsOf(BOOLEAN, {TRUE}, BOOLEAN, BOOLEAN)
    \cup SettingsOf({FALSE}, {FALSE}, {FALSE}, {FALSE})

Init ==
  /\ \E s \in SpecSettings : Constructed(s)
  /\ args = NoArgs
  /\ geoIn = NoGeoIn
  /\ geo = NoGeo
  /\ inv = NoInv
  /\ loop = NoLoop

Next ==
  \/ StartSession
  \/ NextRound
  \/ Ready
  \/ Answer
  \/ QuestionTick
  \/ InterferenceTick
  \/ InterferenceSignal
  \/ PendingStartFire
  \/ SessionTick
  \/ Abort
  \/ ReturnToMenu

Spec == Init /\ [][Next]_vars

\* Sessions without a session limit, the question timer on at its shortest
\* limit, depth adapting from the Starting Depth n.
AdaptSettings(n) ==
  {[DEFAULT_SETTINGS EXCEPT !.activeModes = {"HIERARCHY"},
                            !.numPremises = n,
                            !.questionTimeLimit = MinQuestionTime,
                            !.sessionLengthMinutes = 1,
                            !.disableSessionTimer = TRUE]}

(* --------------------------------------------- a session with the panel used *)
\* A blind-mode session without a session limit, the question timer on at
\* its shortest limit; the panel switches the question timer and
\* interference at any time.
PanelSettings ==
  {[DEFAULT_SETTINGS EXCEPT !.activeModes = {"HIERARCHY"},
                            !.questionTimeLimit = MinQuestionTime,
                            !.sessionLengthMinutes = 1,
                            !.disableSessionTimer = TRUE,
                            !.blindMode = TRUE]}

InitPanel ==
  /\ \E s \in PanelSettings : Constructed(s)
  /\ args = NoArgs
  /\ geoIn = NoGeoIn
  /\ geo = NoGeo
  /\ inv = NoInv
  /\ loop = NoLoop

NextPanel ==
  \/ StartSession
  \/ NextRound
  \/ Ready
  \/ Answer
  \/ QuestionTick
  \/ InterferenceTick
  \/ InterferenceSignal
  \/ PendingStartFire
  \/ ToggleQuestionTimer
  \/ ToggleInterference

SpecPanel == InitPanel /\ [][NextPanel]_vars

(* ------------------------------------------ a session with the depth buttons *)
\* A session without a session limit, the question timer on at its shortest
\* limit; the panel changes Starting Depth at any time.
InitDepth ==
  /\ \E s \in AdaptSettings(DEFAULT_SETTINGS.numPremises) : Constructed(s)
  /\ args = NoArgs
  /\ geoIn = NoGeoIn
  /\ geo = NoGeo
  /\ inv = NoInv
  /\ loop = NoLoop

NextDepth ==
  \/ StartSession
  \/ NextRound
  \/ Answer
  \/ QuestionTick
  \/ DepthDown
  \/ DepthUp

SpecDepth == InitDepth /\ [][NextDepth]_vars

(* ------------------------------------- a session with the modules switched *)
\* A session without timers; the panel switches the one module on and off
\* at any time.
ModuleSettings ==
  {[DEFAULT_SETTINGS EXCEPT !.activeModes = {"HIERARCHY"},
                            !.useQuestionTimer = FALSE,
                            !.disableSessionTimer = TRUE,
                            !.blindMode = b] : b \in BOOLEAN}

InitModules ==
  /\ \E s \in ModuleSettings : Constructed(s)
  /\ args = NoArgs
  /\ geoIn = NoGeoIn
  /\ geo = NoGeo
  /\ inv = NoInv
  /\ loop = NoLoop

NextModules ==
  \/ StartSession
  \/ NextRound
  \/ Ready
  \/ Answer
  \/ ToggleModule

SpecModules == InitModules /\ [][NextModules]_vars

(* --------------------------------------------------------- adaptive depth *)
\* Enter or Space in RESULT, or the NEXT button, in a longer session
AdaptNext ==
  /\ phase = "RESULT"
  /\ questionsAttempted < MaxAdaptQuestions
  /\ startRound

InitAdapt ==
  /\ \E s \in AdaptSettings(DEFAULT_SETTINGS.numPremises) : Constructed(s)
  /\ args = NoArgs
  /\ geoIn = NoGeoIn
  /\ geo = NoGeo
  /\ inv = NoInv
  /\ loop = NoLoop

NextAdapt ==
  \/ StartSession
  \/ AdaptNext
  \/ Answer
  \/ QuestionTick

SpecAdapt == InitAdapt /\ [][NextAdapt]_vars

(* ------------------------------------------- interference with a second hit *)
\* Space pressed again on the matching colour before the first hit's
\* timeout has run
RepeatedSignal ==
  /\ phase = "INTERFERENCE"
  /\ interferenceStatus = "HIT"
  /\ signalInterference(MaxHits)

\* A session at depth MaxDepth with interference and the question timer on.
HitSettings ==
  {[s EXCEPT !.enableInterference = TRUE] : s \in AdaptSettings(MaxDepth)}

InitHits ==
  /\ \E s \in HitSettings : Constructed(s)
  /\ args = NoArgs
  /\ geoIn = NoGeoIn
  /\ geo = NoGeo
  /\ inv = NoInv
  /\ loop = NoLoop

NextHits ==
  \/ StartSession
  \/ NextRound
  \/ Answer
  \/ QuestionTick
  \/ InterferenceTick
  \/ InterferenceSignal
  \/ RepeatedSignal
  \/ PendingStartFire

SpecHits == InitHits /\ [][NextHits]_vars

(* ------------------------------------------------- a session with the cipher *)
\* Sessions with the cipher on and no timers, under every combination of
\* blind mode and interference.
CipherSettings ==
  {[DEFAULT_SETTINGS EXCEPT !.activeModes = {"HIERARCHY"},
                            !.enableCipher = TRUE,
                            !.useQuestionTimer = FALSE,
                            !.disableSessionTimer = TRUE,
                            !.blindMode = b, !.enableInterference = i] :
     b \in BOOLEAN, i \in BOOLEAN}

InitCipher ==
  /\ \E s \in CipherSettings : Constructed(s)
  /\ args = NoArgs
  /\ geoIn = NoGeoIn
  /\ geo = NoGeo
  /\ inv = NoInv
  /\ loop = NoLoop

NextCipher ==
  \/ StartSession
  \/ NextRound
  \/ Ready
  \/ Answer
  \/ InterferenceTick
  \/ InterferenceSignal
  \/ PendingStartFire

SpecCipher == InitCipher /\ [][NextCipher]_vars

(* ------------------------------------------------- one session after another *)
MaxRestarts == 2          \* sessions started one after another

\* The cipher on, no timer, no blind mode and no interference.
RestartSettings ==
  {[DEFAULT_SETTINGS EXCEPT !.activeModes = {"HIERARCHY"},
                            !.enableCipher = TRUE,
                            !.useQuestionTimer = FALSE,
                            !.disableSessionTimer = TRUE]}

\* Enter in SETUP, or the start button, once more after a session was left
Restart ==
  /\ phase = "SETUP"
  /\ sessionsStarted < MaxRestarts
  /\ sessionsStarted' = sessionsStarted + 1
  /\ startSession

InitRestart ==
  /\ \E s \in RestartSettings : Constructed(s)
  /\ args = NoArgs
  /\ geoIn = NoGeoIn
  /\ geo = NoGeo
  /\ inv = NoInv
  /\ loop = NoLoop

NextRestart ==
  \/ Restart
  \/ NextRound
  \/ Ready
  \/ Answer
  \/ Abort

SpecRestart == InitRestart /\ [][NextRestart]_vars

(* ------------------------------------ generateLogic under every modifier *)
\* Object.entries(currentCipherMap).filter(([k]) => activeCipherKeys.includes(k)),
\* or [] with the cipher disabled
getCipherList(enableCipher, cipherMap, activeCipherKeys) ==
  IF ~enableCipher THEN {}
  ELSE {<<k, cipherMap[k]>> : k \in DOMAIN cipherMap \cap activeCipherKeys}

\* The cipher off with no map, on with a map, and off with the map that
\* startSession builds whether or not the cipher is enabled.
SubModeCiphers ==
  CipherArgs \cup {[enableCipher |-> FALSE, cipherMap |-> cipherKeys[1]]}

\* The calls at the default depth by day: the chain modes, and both spatial
\* modes under every setting of the Deictic and Movement checkboxes (with
\* Movement on, under the enabled cipher only).
SubModeArgs ==
  ArgsOf({"LINEAR", "DISTINCTION", "HIERARCHY"}, {DEFAULT_SETTINGS.numPremises}, {FALSE},
         SubModeCiphers, FALSE, FALSE)
    \cup UNION {ArgsOf({"SPATIAL_2D", "SPATIAL_3D"}, {DEFAULT_SETTINGS.numPremises},
                       {FALSE}, SubModeCiphers, d, FALSE) : d \in BOOLEAN}
    \cup UNION {ArgsOf({"SPATIAL_2D", "SPATIAL_3D"}, {DEFAULT_SETTINGS.numPremises},
                       {FALSE}, {c \in CipherArgs : c.enableCipher}, d, TRUE) :
                  d \in BOOLEAN}

InitSubModes ==
  /\ Constructed(DEFAULT_SETTINGS)
  /\ args \in SubModeArgs
  /\ geoIn = NoGeoIn
  /\ geo = NoGeo
  /\ inv = NoInv
  /\ loop = NoLoop

NextSubModes == GenerateRound

SpecSubModes == InitSubModes /\ [][NextSubModes]_vars

(* --------------------------------------------------- invertSpatial alone *)
MaxParts == 3             \* parts of a combined relation joined by " and "

\* the axis a direction or bearing lies on
axisOf(p) ==
  CASE p \in {"NORTH", "SOUTH"} -> "NS"
    [] p \in {"EAST", "WEST"} -> "EW"
    [] p \in {"ABOVE", "BELOW"} -> "AB"
    [] p \in {"LEFT", "RIGHT"} -> "LR"
    [] p \in {"FRONT", "BEHIND"} -> "FB"

directionNames ==
  {"NORTH", "SOUTH", "EAST", "WEST", "ABOVE", "BELOW", "LEFT", "RIGHT", "FRONT", "BEHIND"}

\* Every relation invertSpatial is given: a direction or bearing, a
\* combination of up to MaxParts of them on different axes, or SAME LOCATION.
InvertInputs ==
  {<<"SAME LOCATION">>}
    \cup UNION {{r \in [1..n -> directionNames] :
                   \A i \in 1..n, j \in 1..n : i # j => axisOf(r[i]) # axisOf(r[j])} :
                n \in 1..MaxParts}

\* invertSpatial(rel) and invertSpatial(invertSpatial(rel))
InvertTwice ==
  /\ ~inv.done
  /\ inv' = [inv EXCEPT !.done = TRUE,
                        !.once = invertSpatial(inv.rel),
                        !.twice = invertSpatial(invertSpatial(inv.rel))]
  /\ UNCHANGED <<args, geoIn, geo, loop, phase, settings, history, roundVars,
                 activeModifiers, currentCipherMap, scoreVars, sessionTimerRef,
                 questionSecondsRemaining, sessionInterval, questionInterval,
                 interferenceVars, pendingStart, sessionsStarted, roundNotes>>

InitInvert ==
  /\ Constructed(DEFAULT_SETTINGS)
  /\ args = NoArgs
  /\ geoIn = NoGeoIn
  /\ geo = NoGeo
  /\ inv \in {[NoInv EXCEPT !.rel = r] : r \in InvertInputs}
  /\ loop = NoLoop

NextInvert == InvertTwice

SpecInvert == InitInvert /\ [][NextInvert]_vars

(* ------------------------------------- a session started after an abort *)
\* Sessions at the default depth with interference and the question timer
\* on and no session limit.
AbortSettings ==
  {[s EXCEPT !.enableInterference = TRUE] :
     s \in AdaptSettings(DEFAULT_SETTINGS.numPremises)}

InitAbort ==
  /\ \E s \in AbortSettings : Constructed(s)
  /\ args = NoArgs
  /\ geoIn = NoGeoIn
  /\ geo = NoGeo
  /\ inv = NoInv
  /\ loop = NoLoop

NextAbort ==
  \/ Restart
  \/ Answer
  \/ QuestionTick
  \/ InterferenceTick
  \/ InterferenceSignal
  \/ PendingStartFire
  \/ Abort

SpecAbort == InitAbort /\ [][NextAbort]_vars

(* ------------------------------------------- the redraw loops, step by step *)
\* One run of a loop that redraws a value: pool is what Math.random draws
\* from, avoid the values the loop condition rejects, x the value drawn last
\* and attempts the counter of the target loop.
\* getDistinctRandomIndices(count): a and the first b are any two indices.
IndexLoops ==
  UNION {{[pc |-> "loop", kind |-> "indices", pool |-> 0..(count - 1), avoid |-> {a},
           x |-> b, attempts |-> 0] : a \in 0..(count - 1), b \in 0..(count - 1)} :
         count \in 3..(MaxLinks + 1)}

\* the "ask a lie" loop of DEICTIC and MOVEMENT against an effective relation
BearingLoops ==
  {[pc |-> "loop", kind |-> "bearing", pool |-> possibleDirs, avoid |-> {effRel},
    x |-> fakeRaw, attempts |-> 0] :
     effRel \in possibleDirs \cup {"SAME LOCATION"}, fakeRaw \in possibleDirs}

\* the false branch of STANDARD against the effective parts of a displacement
DirectionLoops ==
  UNION {{[pc |-> "loop", kind |-> "direction", pool |-> allDirs(d.is3D),
           avoid |-> Elems(effectiveParts(d.isNight,
                                          standardParts(d.is3D, d.dx, d.dy, d.dz))),
           x |-> fakeRaw, attempts |-> 0] : fakeRaw \in allDirs(d.is3D)} :
         d \in [is3D : BOOLEAN, isNight : BOOLEAN, dx : -1..1, dy : -1..1, dz : -1..1]}

\* the target loop of MOVEMENT at the default depth: the start item and the
\* items at the walker's final position are rejected
TargetLoops ==
  {[pc |-> "loop", kind |-> "target", pool |-> 0..DEFAULT_SETTINGS.numPremises,
    avoid |-> {t \in 0..DEFAULT_SETTINGS.numPremises :
                 targetRejected(w.dirs, w.startIdx, t,
                                walkerEnd(w.dirs, w.startIdx, w.heading0, w.moves).x,
                                walkerEnd(w.dirs, w.startIdx, w.heading0, w.moves).y)},
    x |-> targetIdx, attempts |-> 0] :
     w \in [dirs : [1..DEFAULT_SETTINGS.numPremises -> WalkDirs(FALSE)],
            startIdx : 0..DEFAULT_SETTINGS.numPremises, heading0 : 0..3,
            moves : MoveLists],
     targetIdx \in 0..DEFAULT_SETTINGS.numPremises}

\* A variant of the target loop's condition that allows one more reroll.
rerollsOnceMore(rejected, attempts) == rejected /\ attempts <= MaxTargetAttempts

\* (targetIdx === startIdx || coincident) && attempts < 50
rerolls(rejected, attempts) == rejected /\ attempts < MaxTargetAttempts

\* the condition of the loop in progress
loopCondition ==
  IF loop.kind = "target" THEN rerolls(loop.x \in loop.avoid, loop.attempts)
  ELSE loop.x \in loop.avoid

loopFrame ==
  UNCHANGED <<args, geoIn, geo, inv, phase, settings, history, roundVars,
              activeModifiers, currentCipherMap, scoreVars, sessionTimerRef,
              questionSecondsRemaining, sessionInterval, questionInterval,
              interferenceVars, pendingStart, sessionsStarted, roundNotes>>

\* while (a === b) b = Math.floor(Math.random() * count)
RedrawIndex ==
  /\ loop.pc = "loop" /\ loop.kind = "indices" /\ loopCondition
  /\ \E b \in loop.pool : loop' = [loop EXCEPT !.x = b]
  /\ loopFrame

\* while (fakeRaw === effectiveRel) fakeRaw = possibleDirs[...]
RedrawBearing ==
  /\ loop.pc = "loop" /\ loop.kind = "bearing" /\ loopCondition
  /\ \E fakeRaw \in loop.pool : loop' = [loop EXCEPT !.x = fakeRaw]
  /\ loopFrame

\* while (effectiveParts.includes(fakeRaw)) fakeRaw = allDirs[...]
RedrawDirection ==
  /\ loop.pc = "loop" /\ loop.kind = "direction" /\ loopCondition
  /\ \E fakeRaw \in loop.pool : loop' = [loop EXCEPT !.x = fakeRaw]
  /\ loopFrame

\* targetIdx = Math.floor(Math.random() * items.length); attempts++
RerollTarget ==
  /\ loop.pc = "loop" /\ loop.kind = "target" /\ loopCondition
  /\ \E targetIdx \in loop.pool :
       loop' = [loop EXCEPT !.x = targetIdx, !.attempts = @ + 1]
  /\ loopFrame

\* the loop condition is false: the code goes on with the value drawn last
LeaveLoop ==
  /\ loop.pc = "loop" /\ ~loopCondition
  /\ loop' = [loop EXCEPT !.pc = "done"]
  /\ loopFrame

\* One loop is entered with the value drawn before it.
InitLoops ==
  /\ Constructed(DEFAULT_SETTINGS)
  /\ args = NoArgs
  /\ geoIn = NoGeoIn
  /\ geo = NoGeo
  /\ inv = NoInv
  /\ \/ loop \in IndexLoops
     \/ loop \in BearingLoops
     \/ loop \in DirectionLoops
     \/ loop \in TargetLoops

NextLoops ==
  \/ RedrawIndex
  \/ RedrawBearing
  \/ RedrawDirection
  \/ RerollTarget
  \/ LeaveLoop

\* Every Math.random() draw has each of its values with positive
\* probability: a loop that keeps redrawing draws, sooner or later, a value
\* its condition lets through, if there is one.
FairDraws ==
  /\ WF_vars(RedrawIndex /\ loop'.x \notin loop.avoid)
  /\ WF_vars(RedrawBearing /\ loop'.x \notin loop.avoid)
  /\ WF_vars(RedrawDirection /\ loop'.x \notin loop.avoid)
  /\ WF_vars(RerollTarget)
  /\ WF_vars(LeaveLoop)

SpecLoops == InitLoops /\ [][NextLoops]_vars /\ FairDraws

(* --------------------------------- a session with Auto-Progress switched *)
\* The Auto-Progress (Adaptive) checkbox
ToggleAutoProgress ==
  /\ settings' = [settings EXCEPT !.autoProgress = ~@]
  /\ panelFrame

\* Sessions at depth MaxDepth with the question timer on, Auto-Progress on or
\* off at the start.
AutoSettings ==
  {[s EXCEPT !.autoProgress = a] : s \in AdaptSettings(MaxDepth), a \in BOOLEAN}

InitAuto ==
  /\ \E s \in AutoSettings : Constructed(s)
  /\ args = NoArgs
  /\ geoIn = NoGeoIn
  /\ geo = NoGeo
  /\ inv = NoInv
  /\ loop = NoLoop

NextAuto ==
  \/ StartSession
  \/ NextRound
  \/ Answer
  \/ QuestionTick
  \/ ToggleAutoProgress

SpecAuto == InitAuto /\ [][NextAuto]_vars

(* ----------------------------------- a session that runs to its time limit *)
\* Sessions of the shortest length the panel allows with the session limit,
\* interference and the question timer on.
ExpirySettings ==
  {[s EXCEPT !.enableInterference = TRUE, !.disableSessionTimer = FALSE] :
     s \in AdaptSettings(DEFAULT_SETTINGS.numPremises)}

InitExpiry ==
  /\ \E s \in ExpirySettings : Constructed(s)
  /\ args = NoArgs
  /\ geoIn = NoGeoIn
  /\ geo = NoGeo
  /\ inv = NoInv
  /\ loop = NoLoop

NextExpiry ==
  \/ StartSession
  \/ NextRound
  \/ Answer
  \/ QuestionTick
  \/ InterferenceTick
  \/ InterferenceSignal
  \/ PendingStartFire
  \/ SessionTick
  \/ ReturnToMenu

SpecExpiry == InitExpiry /\ [][NextExpiry]_vars

(* ----------------------------------------- the session limit under fair ticks *)
\* The infinity / TIMED buttons of Session Duration
ToggleSessionTimer ==
  /\ settings' = [settings EXCEPT !.disableSessionTimer = ~@]
  /\ panelFrame

\* Blind-mode sessions of the shortest length, with and without the session
\* limit, no question timer and no interference.
TimedSettings == SettingsOf({FALSE}, BOOLEAN, {TRUE}, {FALSE})

InitTimed ==
  /\ \E s \in TimedSettings : Constructed(s)
  /\ args = NoArgs
  /\ geoIn = NoGeoIn
  /\ geo = NoGeo
  /\ inv = NoInv
  /\ loop = NoLoop

\* The session as started, its mode left alone
NextTimed ==
  \/ StartSession
  \/ NextRound
  \/ Ready
  \/ Answer
  \/ SessionTick
  \/ Abort
  \/ ReturnToMenu

\* setInterval(..., 1000): the callback of an armed interval keeps running
FairTicks == WF_vars(SessionTick)

SpecTimed == InitTimed /\ [][NextTimed]_vars /\ FairTicks

\* The same with the mode switched in the panel at any time
NextTimedPanel ==
  \/ NextTimed
  \/ ToggleSessionTimer

SpecTimedPanel == InitTimed /\ [][NextTimedPanel]_vars /\ FairTicks

(* ------------------------------------------- a start with no module enabled *)
\* The session limit on at the shortest length and no module enabled, as
\* the panel leaves them when HIERARCHY is switched off.
IdleSettings ==
  {[s EXCEPT !.activeModes = {}] : s \in SettingsOf({FALSE}, {FALSE}, {FALSE}, {FALSE})}

InitIdle ==
  /\ \E s \in IdleSettings : Constructed(s)
  /\ args = NoArgs
  /\ geoIn = NoGeoIn
  /\ geo = NoGeo
  /\ inv = NoInv
  /\ loop = NoLoop

NextIdle ==
  \/ StartSession
  \/ SessionTick
  \/ ToggleModule
  \/ ReturnToMenu

SpecIdle == InitIdle /\ [][NextIdle]_vars

(* ================================================================ claims *)
GeneratedRound == round # NoRound

ChainMode == currentRoundMode \in {"LINEAR", "DISTINCTION", "HIERARCHY"}

SpatialMode == currentRoundMode \in {"SPATIAL_2D", "SPATIAL_3D"}

\* the premise of the round that states the link between items i - 1 and i
LinkOf(i) == CHOOSE p \in Elems(round.premises) : p.a = i - 1 /\ p.b = i

\* the links that lie between items x and y of the chain
LinksBetween(x, y) == IF x < y THEN (x + 1)..y ELSE (y + 1)..x

(* ------------------------------------------------------------------- C1 *)
\* The premises entail that item x is greater than item y: every link
\* between them points the same way, the greater item on x's side.
EntailsGreater(x, y) ==
  \A i \in LinksBetween(x, y) :
     LinkOf(i).rel = (IF x < y THEN "GREATER" ELSE "LESS")

\* C1: in every LINEAR round generated with night mode off, whenever the
\* GREATER / LESS links of the premises determine the order of the two queried
\* items, the expected answer agrees with that order.
C1_LinearAnswerDerivable ==
  (GeneratedRound /\ currentRoundMode = "LINEAR" /\ ~contextIsNight
     /\ (EntailsGreater(round.question.subj, round.question.obj)
           \/ EntailsGreater(round.question.obj, round.question.subj)))
    => expectedAnswerRef =
         (IF round.question.key = "GREATER"
          THEN EntailsGreater(round.question.subj, round.question.obj)
          ELSE EntailsGreater(round.question.obj, round.question.subj))

(* ------------------------------------------------------------------- C2 *)
DifferentBetween(x, y) ==
  Cardinality({i \in LinksBetween(x, y) : LinkOf(i).rel = "DIFFERENT"})

\* C2: in every DISTINCTION round generated with night mode off, the expected
\* answer to a SAME query is TRUE iff the number of DIFFERENT premises on the
\* links between the two queried items is even, and the expected answer to a
\* DIFFERENT query is the negation of that.
C2_DistinctionParity ==
  (GeneratedRound /\ currentRoundMode = "DISTINCTION" /\ ~contextIsNight)
    => /\ \A i \in 1..Len(round.premises) :
            LinkOf(i).rel \in {"SAME", "DIFFERENT"}
       /\ expectedAnswerRef =
            (IF round.question.key = "SAME"
             THEN DifferentBetween(round.question.subj, round.question.obj) % 2 = 0
             ELSE DifferentBetween(round.question.subj, round.question.obj) % 2 = 1)

\* A SAME query across two DIFFERENT links, answered YES, has been generated.
C2_DistinctionParityReached ==
  /\ GeneratedRound /\ currentRoundMode = "DISTINCTION" /\ ~contextIsNight
  /\ round.question.key = "SAME"
  /\ DifferentBetween(round.question.subj, round.question.obj) = 2
  /\ expectedAnswerRef

(* ------------------------------------------------------------------- C3 *)
\* C3: in every HIERARCHY round generated with night mode off the premises
\* are the chain item[i] CONTAINS item[i+1], an INSIDE query has expected
\* answer TRUE iff idxA > idxB and a CONTAINS query iff idxA < idxB.
C3_HierarchyByIndex ==
  (GeneratedRound /\ currentRoundMode = "HIERARCHY" /\ ~contextIsNight)
    => /\ \A i \in 1..Len(round.premises) : LinkOf(i).rel = "CONTAINS"
       /\ round.question.key \in {"INSIDE", "CONTAINS"}
       /\ expectedAnswerRef =
            (IF round.question.key = "INSIDE"
             THEN round.question.subj > round.question.obj
             ELSE round.question.subj < round.question.obj)

\* An INSIDE query about an item two links below another, answered YES, and
\* so a CONTAINS query the other way round, have been generated.
C3_HierarchyByIndexReached ==
  /\ GeneratedRound /\ currentRoundMode = "HIERARCHY" /\ ~contextIsNight
  /\ round.question.key = "INSIDE"
  /\ round.question.subj = round.question.obj + 2
  /\ expectedAnswerRef

(* ------------------------------------------------------------------- C4 *)
\* the position the round's map gives item i
PosOf(i) == round.visualMap[i + 1]

\* The true relation set of a displacement: the directions whose axis has
\* that non-zero sign.
TrueSet(dx, dy, dz) ==
  (IF dy > 0 THEN {"NORTH"} ELSE IF dy < 0 THEN {"SOUTH"} ELSE {})
    \cup (IF dx > 0 THEN {"EAST"} ELSE IF dx < 0 THEN {"WEST"} ELSE {})
    \cup (IF dz > 0 THEN {"ABOVE"} ELSE IF dz < 0 THEN {"BELOW"} ELSE {})

\* the true relation set of the queried item B (subj) as seen from A (obj)
QueriedTrueSet ==
  TrueSet(PosOf(round.question.subj).x - PosOf(round.question.obj).x,
          PosOf(round.question.subj).y - PosOf(round.question.obj).y,
          PosOf(round.question.subj).z - PosOf(round.question.obj).z)

StandardRound == GeneratedRound /\ SpatialMode /\ round.question.form = "IS_OF"

\* C4: in every STANDARD spatial round generated with night mode off the
\* expected answer to "is B <dir> of A" is TRUE iff <dir> is in the true
\* relation set of pos[B] - pos[A]; a 2D round never asks ABOVE or BELOW; and
\* when A and B coincide the expected answer is FALSE.
C4_StandardTrueSet ==
  (StandardRound /\ ~contextIsNight)
    => /\ expectedAnswerRef = (round.question.key \in QueriedTrueSet)
       /\ currentRoundMode = "SPATIAL_2D" => round.question.key \notin {"ABOVE", "BELOW"}
       /\ QueriedTrueSet = {} => ~expectedAnswerRef

\* A 2D round whose queried items lie diagonally, asked for WEST and answered
\* YES, has been generated.
C4_StandardTrueSetReached ==
  /\ StandardRound /\ ~contextIsNight /\ currentRoundMode = "SPATIAL_2D"
  /\ QueriedTrueSet = {"NORTH", "WEST"}
  /\ round.question.key = "WEST"
  /\ expectedAnswerRef

(* ------------------------------------------------------------------- C5 *)
\* The rotation and the classification as the specification states them.
StatedRotation(h, dx, dy) ==
  CASE h = 0 -> <<dx, dy>>
    [] h = 1 -> <<-dy, dx>>
    [] h = 2 -> <<-dx, -dy>>
    [] h = 3 -> <<dy, -dx>>

StatedClass(l) ==
  IF l[2] > 0 /\ Abs(l[1]) <= l[2] THEN "FRONT"
  ELSE IF l[2] < 0 /\ Abs(l[1]) <= Abs(l[2]) THEN "BEHIND"
  ELSE IF l[1] > 0 THEN "RIGHT"
  ELSE IF l[1] < 0 THEN "LEFT"
  ELSE "SAME LOCATION"

StatedBearing(h, dx, dy) == StatedClass(StatedRotation(h, dx, dy))

\* C5: for every displacement and facing the DEICTIC relation is the stated
\* rotation followed by the stated classification; it is SAME LOCATION iff
\* dx = dy = 0; and the expected answer is TRUE iff the asked bearing equals
\* the effective relation.
C5_DeicticBearing ==
  geo.done
    => /\ geo.deictic = StatedBearing(geoIn.h, geoIn.dx, geoIn.dy)
       /\ (geo.deictic = "SAME LOCATION") <=> (geoIn.dx = 0 /\ geoIn.dy = 0)
       /\ geo.answer =
            (geo.key = (IF geoIn.isNight THEN invertSpatialMap(geo.deictic)
                        ELSE geo.deictic))

\* Facing WEST with the target to the north and a step further west, the
\* bearing RIGHT has been computed and a query for RIGHT answered YES.
C5_DeicticBearingReached ==
  /\ geo.done /\ geoIn.h = 3 /\ geoIn.dx = -1 /\ geoIn.dy = 2 /\ ~geoIn.isNight
  /\ geo.deictic = "RIGHT" /\ geo.key = "RIGHT" /\ geo.answer

(* ------------------------------------------------------------------- C6 *)
\* C6: for every final heading and every displacement from the walker to the
\* target the MOVEMENT relation equals the DEICTIC relation of the same
\* facing and displacement.
C6_MovementAsDeictic == geo.done => geo.movement = geo.deictic

(* ------------------------------------------------------------------- C7 *)
\* the index of a compass name among NORTH, EAST, SOUTH, WEST
CompassIndex(name) == CHOOSE h \in 0..3 : facingNames[h + 1] = name

\* The walker after the first n lines of the instructions shown with the
\* question, replayed on the map: line 1 names the start item, line 2 the
\* first heading, every later line is a step ahead or a quarter turn.
RECURSIVE Replayed(_, _)
Replayed(instr, n) ==
  IF n <= 2
  THEN [x |-> PosOf(instr[1].item).x, y |-> PosOf(instr[1].item).y,
        heading |-> CompassIndex(instr[2].dir)]
  ELSE LET w == Replayed(instr, n - 1)
       IN  IF instr[n].key = "WALK"
           THEN [w EXCEPT !.x = @ + (IF w.heading = 1 THEN 1
                                     ELSE IF w.heading = 3 THEN -1 ELSE 0),
                          !.y = @ + (IF w.heading = 0 THEN 1
                                     ELSE IF w.heading = 2 THEN -1 ELSE 0)]
           ELSE IF instr[n].dir = "RIGHT"
           THEN [w EXCEPT !.heading = (@ + 1) % 4]
           ELSE [w EXCEPT !.heading = (@ + 3) % 4]

WalkerAtEnd == Replayed(round.question.instr, Len(round.question.instr))

\* the true local relation of the queried target, by the stated rule
QueriedLocalRelation ==
  IF round.question.form = "DEICTIC"
  THEN StatedBearing(CompassIndex(round.question.facing),
                     PosOf(round.question.subj).x - PosOf(round.question.obj).x,
                     PosOf(round.question.subj).y - PosOf(round.question.obj).y)
  ELSE StatedBearing(WalkerAtEnd.heading,
                     PosOf(round.question.subj).x - WalkerAtEnd.x,
                     PosOf(round.question.subj).y - WalkerAtEnd.y)

\* C7: in a spatial round under night mode the expected answer to a query
\* about direction D is TRUE iff invert(D) is in the true relation set
\* (STANDARD) or equals the true local relation (DEICTIC, MOVEMENT).
C7_NightInvertsRelation ==
  (GeneratedRound /\ SpatialMode /\ contextIsNight)
    => expectedAnswerRef =
         (IF round.question.form = "IS_OF"
          THEN invertSpatialMap(round.question.key) \in QueriedTrueSet
          ELSE invertSpatialMap(round.question.key) = QueriedLocalRelation)

(* ------------------------------------------------------------------- C8 *)
\* The round the same call returns with night mode off for the draws of the
\* generated round, read back from its premises and question: the link
\* labels, the queried indices and the query keyword; v0 is the first value
\* of a DISTINCTION chain and k the shuffle, which the round does not show.
DayRound(v0, k) ==
  IF currentRoundMode = "LINEAR"
  THEN GenLinear(args.num, args.enableCipher, args.cipherMap, FALSE,
                 [i \in 1..args.num |-> LinkOf(i).rel],
                 round.question.subj, round.question.obj, round.question.key, k)
  ELSE IF currentRoundMode = "DISTINCTION"
  THEN GenDistinction(args.num, args.enableCipher, args.cipherMap, FALSE, v0,
                      [i \in 1..args.num |-> LinkOf(i).rel = "SAME"],
                      round.question.subj, round.question.obj, round.question.key, k)
  ELSE GenHierarchy(args.num, args.enableCipher, args.cipherMap, FALSE,
                    round.question.subj, round.question.obj,
                    round.question.key = "INSIDE", k)

SameAsked(logicData) ==
  logicData.premises = round.premises /\ logicData.question = round.question

\* C8: for LINEAR, DISTINCTION and HIERARCHY rounds night mode negates the
\* ground-truth boolean exactly once (for the same premises, indices and
\* query keyword the expected answer with night on is the negation of the one
\* with night off), and the stored expected answer is the generator's value
\* with no further flip.
C8_NightNegatesOnce ==
  (GeneratedRound /\ ChainMode)
    => /\ expectedAnswerRef = round.answer
       /\ \E v0 \in {0, 1}, k \in Shifts(args.num) : SameAsked(DayRound(v0, k))
       /\ \A v0 \in {0, 1}, k \in Shifts(args.num) :
            SameAsked(DayRound(v0, k))
              => DayRound(v0, k).answer =
                   (IF contextIsNight THEN ~round.answer ELSE round.answer)

\* A night LINEAR round asking GREATER of a later item, answered YES, has
\* been generated and stored.
C8_NightNegatesOnceReached ==
  /\ GeneratedRound /\ currentRoundMode = "LINEAR" /\ contextIsNight
  /\ round.question.key = "GREATER"
  /\ round.question.subj > round.question.obj
  /\ expectedAnswerRef

(* ------------------------------------------------------------------- C9 *)
\* C9: in every reachable state the question countdown is armed only while
\* phase = QUESTION and the interference tick only while phase = INTERFERENCE.
C9_TimersOwnedByPhase ==
  /\ questionInterval.armed => phase = "QUESTION"
  /\ interferenceInterval => phase = "INTERFERENCE"

(* ------------------------------------------------------------------ C10 *)
\* C10: questions attempted and the session log grow, and RESULT is entered,
\* only by a step taken while phase = QUESTION; a timer callback that runs in
\* any other phase leaves them alone.
C10_ScoredOnlyInQuestion ==
  [][(questionsAttempted' > questionsAttempted
        \/ Len(sessionLog') > Len(sessionLog)
        \/ (phase' = "RESULT" /\ phase # "RESULT"))
       => phase = "QUESTION"]_vars


(* ------------------------------------------------------------------ C11 *)
\* a step that is one run of handleAnswer
AnswerStep == questionsAttempted' = questionsAttempted + 1

\* C11: whatever answers, timeouts and Starting Depth presses occur, depth
\* (settings.numPremises) never goes below 2, and one answer or timeout moves
\* it by at most one.
C11_DepthFloor ==
  [][/\ settings.numPremises >= 2 => settings'.numPremises >= 2
     /\ AnswerStep => Abs(settings'.numPremises - settings.numPremises) <= 1]_vars

(* ------------------------------------------------------------------ C12 *)
\* the number of correct answers at the head of a log (newest first)
RECURSIVE CorrectRun(_)
CorrectRun(log) ==
  IF log = << >> \/ ~Head(log).isCorrect THEN 0 ELSE 1 + CorrectRun(Tail(log))

\* C12: with autoProgress on, an answer raises depth (by one, progress-streak
\* back to 0) exactly when it is the third consecutive correct answer since
\* the last adaptive depth change or the session start; an incorrect answer
\* or a timeout leaves the progress-streak at 0; three correct answers from
\* depth 2 give depth 3 and progress-streak 0.
C12_ThirdCorrectLevelsUp ==
  [][(AnswerStep /\ settings.autoProgress) =>
       LET run == CorrectRun(sessionLog')
       IN  /\ (settings'.numPremises > settings.numPremises) <=> (run > 0 /\ run % 3 = 0)
           /\ settings'.numPremises > settings.numPremises
                => settings'.numPremises = settings.numPremises + 1
           /\ progressCount' = run % 3
           /\ (run = 3 /\ maxDepthReached = 2) => settings'.numPremises = 3]_vars

\* Three answers of a session that began at depth 2 were all correct, and
\* depth is 3 with the progress-streak back at 0.
C12_ThirdCorrectLevelsUpReached ==
  /\ phase = "RESULT" /\ questionsAttempted = 3
  /\ CorrectRun(sessionLog) = 3
  /\ settings.numPremises = 3 /\ progressCount = 0

(* ------------------------------------------------------------------ C13 *)
\* C13: with autoProgress on, an answer lowers depth only if it and the
\* answer before it were both incorrect and depth was above 2, and then by
\* one with the mistake-streak back at 0; a correct answer leaves the
\* mistake-streak at 0, and an incorrect answer at depth 2 leaves it as it was.
C13_SecondMistakeLevelsDown ==
  [][(AnswerStep /\ settings.autoProgress) =>
       /\ settings'.numPremises < settings.numPremises =>
            /\ settings'.numPremises = settings.numPremises - 1
            /\ mistakeCount' = 0
            /\ settings.numPremises > 2
            /\ Len(sessionLog') >= 2
            /\ ~sessionLog'[1].isCorrect /\ ~sessionLog'[2].isCorrect
       /\ sessionLog'[1].isCorrect => mistakeCount' = 0
       /\ (~sessionLog'[1].isCorrect /\ settings.numPremises = 2)
            => mistakeCount' = mistakeCount]_vars

(* ------------------------------------------------------------------ C14 *)
\* the depth of the round on screen: the number of premises it was generated with
RoundDepth == Len(round.premises)

\* C14: on the answer to a round of depth d, a correct answer adds exactly
\* d * 10 to the score and an incorrect answer or a timeout leaves
\* max(0, score - 20); a timeout is never correct; the score is never negative.
C14_ScoreByRoundDepth ==
  [][AnswerStep =>
       LET given == sessionLog'[1].userAnswer
           correct == given = (IF expectedAnswerRef THEN "YES" ELSE "NO")
       IN  /\ sessionLog'[1].isCorrect = correct
           /\ given = "TIMEOUT" => ~sessionLog'[1].isCorrect
           /\ correct => currentScore' = currentScore + RoundDepth * 10
           /\ ~correct => currentScore' = Max(0, currentScore - 20)
           /\ currentScore' >= 0]_vars

(* ------------------------------------------------------------------ C15 *)
\* a step in which startSession or startRound starts a round
RoundStarted ==
  /\ phase \in {"SETUP", "RESULT"}
  /\ phase' \in {"PREMISE_MEMORIZE", "INTERFERENCE", "QUESTION"}
  /\ pendingStart' = pendingStart

\* C15: a round that starts enters PREMISE_MEMORIZE iff blindMode is on or
\* the cipher key changed this round; otherwise it goes straight to
\* INTERFERENCE if enableInterference is on, else to QUESTION.
C15_MemorizeIffBlindOrKeyChange ==
  [][RoundStarted =>
       /\ (phase' = "PREMISE_MEMORIZE") <=> (settings.blindMode \/ cipherHasChanged')
       /\ phase' # "PREMISE_MEMORIZE" =>
            phase' = (IF settings.enableInterference THEN "INTERFERENCE"
                      ELSE "QUESTION")]_vars

\* A round whose key changed is in PREMISE_MEMORIZE with blind mode off.
C15_MemorizeIffBlindOrKeyChangeReached ==
  /\ phase = "PREMISE_MEMORIZE"
  /\ cipherHasChanged
  /\ ~settings.blindMode /\ ~roundSettings.blindMode

(* ------------------------------------------------------------------ C16 *)
\* C16: RESULT is entered only from QUESTION; QUESTION is entered only by a
\* round start, from PREMISE_MEMORIZE or from INTERFERENCE; a new round is
\* generated only from SETUP or RESULT.
C16_PhaseOrder ==
  [][/\ (phase' = "RESULT" /\ phase # "RESULT") => phase = "QUESTION"
     /\ (phase' = "QUESTION" /\ phase # "QUESTION")
          => (RoundStarted \/ phase \in {"PREMISE_MEMORIZE", "INTERFERENCE"})
     /\ round' # round => phase \in {"SETUP", "RESULT"}]_vars

(* ------------------------------------------------------------------ C17 *)
\* C17: the ABORT button, pressed in PREMISE_MEMORIZE, INTERFERENCE,
\* QUESTION or RESULT, takes the controller to SESSION_END.
C17_AbortEndsSession ==
  [][(Abort /\ phase \in {"PREMISE_MEMORIZE", "INTERFERENCE", "QUESTION", "RESULT"})
       => phase' = "SESSION_END"]_vars

(* ------------------------------------------------------------------ C18 *)
\* C18: a round requested (by start-session or by next-round) with no module
\* enabled starts no round: phase, the round's premises and query and the
\* expected answer stay as they are, neither the question timer nor the
\* interference tick is armed, and the failure is reported (one more alert).
C18_NoModuleNoRound ==
  [][(settings.activeModes = {} /\ (StartSession \/ NextRound)) =>
       /\ phase' = phase
       /\ round' = round
       /\ expectedAnswerRef' = expectedAnswerRef
       /\ ~questionInterval'.armed /\ ~interferenceInterval'
       /\ alerts' = alerts + 1]_vars

\* The next round was requested after an answer with the module switched
\* off: still RESULT, the answered round still on screen, and one alert.
C18_NoModuleNoRoundReached ==
  /\ settings.activeModes = {}
  /\ phase = "RESULT" /\ questionsAttempted = 1
  /\ round # NoRound
  /\ alerts = 1

(* ------------------------------------------------------------------ C19 *)
\* C19: a round runs under the settings it was generated from, whatever the
\* panel changes meanwhile: INTERFERENCE follows PREMISE_MEMORIZE iff those
\* settings have enableInterference, the question timer is armed on entering
\* QUESTION iff they have useQuestionTimer, and a correct answer scores
\* their depth times 10, an incorrect one at their depth 2 lowering nothing.
C19_RoundKeepsItsSettings ==
  [][/\ (phase = "PREMISE_MEMORIZE" /\ phase' \in {"INTERFERENCE", "QUESTION"})
          => ((phase' = "INTERFERENCE") <=> roundSettings.enableInterference)
     /\ (phase' = "QUESTION" /\ phase # "QUESTION")
          => (questionInterval'.armed <=> roundSettings'.useQuestionTimer)
     /\ (AnswerStep /\ sessionLog'[1].isCorrect)
          => currentScore' = currentScore + roundSettings.numPremises * 10
     /\ (AnswerStep /\ ~sessionLog'[1].isCorrect /\ roundSettings.numPremises = 2)
          => settings'.numPremises = settings.numPremises]_vars

(* ------------------------------------------------------------------ C20 *)
\* C20: every cipher map generated or regenerated maps each of the 20
\* relation keywords to one token of the 24-token pool, no two keywords to
\* the same token.
C20_CipherMapBijection ==
  currentCipherMap # EmptyMap =>
    /\ DOMAIN currentCipherMap = {relations[i] : i \in 1..Len(relations)}
    /\ Cardinality(DOMAIN currentCipherMap) = 20
    /\ Cardinality({CIPHER_WORDS[i] : i \in 1..Len(CIPHER_WORDS)}) = 24
    /\ \A key \in DOMAIN currentCipherMap :
          currentCipherMap[key] \in {CIPHER_WORDS[i] : i \in 1..Len(CIPHER_WORDS)}
    /\ Cardinality({currentCipherMap[key] : key \in DOMAIN currentCipherMap}) = 20

\* A round has regenerated the key generated at the session start.
C20_CipherMapBijectionReached ==
  /\ currentCipherMap # EmptyMap
  /\ cipherHasChanged
  /\ questionsAttempted > 0

(* ------------------------------------------------------------------ C21 *)
\* C21: the cipher map changes only when a session or a round is started, and
\* a round is flagged as key-changed only when it is started from RESULT after
\* at least one answer of the current session with the cipher enabled; the
\* round a session starts with is never flagged.
C21_KeyChangeOnlyAfterFirstRound ==
  [][/\ currentCipherMap' # currentCipherMap => RoundStarted
     /\ (RoundStarted /\ cipherHasChanged')
          => (phase = "RESULT" /\ questionsAttempted > 0 /\ settings.enableCipher)]_vars

(* ------------------------------------------------------------------ C22 *)
\* every term the round displays: the relation of each premise, the term of
\* the query, the facing and the instruction words
Displayed ==
  {round.premises[i].shown : i \in 1..Len(round.premises)}
    \cup {round.question.shown, round.question.facing}
    \cup {round.question.instr[j].shown : j \in 1..Len(round.question.instr)}
    \cup {round.question.instr[j].dir : j \in 1..Len(round.question.instr)}

\* C22: the used keys of a generated round are exactly the keywords whose
\* cipher token is displayed in its premises or query; with the cipher
\* disabled no token is displayed and the used keys and the legend are empty;
\* a SAME LOCATION query is displayed as such and is not recorded.
C22_UsedKeysAreSubstituted ==
  GeneratedRound =>
    /\ round.usedCipherKeys =
         {k \in DOMAIN args.cipherMap : args.cipherMap[k] \in Displayed}
    /\ ~args.enableCipher =>
         /\ round.usedCipherKeys = {}
         /\ Displayed \cap Elems(CIPHER_WORDS) = {}
         /\ getCipherList(args.enableCipher, args.cipherMap, round.usedCipherKeys) = {}
    /\ round.question.key = "SAME LOCATION" =>
         /\ round.question.shown = "SAME LOCATION"
         /\ "SAME LOCATION" \notin round.usedCipherKeys

C22_UsedKeysAreSubstitutedReached ==
  /\ GeneratedRound
  /\ args.enableCipher
  /\ round.question.form = "MOVEMENT"
  /\ round.question.key = "SAME LOCATION"
  /\ round.usedCipherKeys # {}

(* ------------------------------------------------------------------ C23 *)
\* the sub-mode the generated spatial round was built in
SubMode ==
  IF round.question.form = "IS_OF" THEN "STANDARD" ELSE round.question.form

\* C23: a spatial round generated with Deictic or Movement enabled is never
\* STANDARD, its sub-mode is one of the enabled ones; with neither enabled
\* every spatial round is STANDARD.
C23_ModifierExcludesStandard ==
  (GeneratedRound /\ SpatialMode) =>
    /\ SubMode \in {"STANDARD", "DEICTIC", "MOVEMENT"}
    /\ (args.enableDeictic \/ args.enableMovement) =>
         SubMode \in (IF args.enableDeictic THEN {"DEICTIC"} ELSE {})
                       \cup (IF args.enableMovement THEN {"MOVEMENT"} ELSE {})
    /\ (~args.enableDeictic /\ ~args.enableMovement) => SubMode = "STANDARD"

(* ------------------------------------------------------------------ C24 *)
\* C24: inverting a relation twice gives the relation back, for every
\* direction, bearing, combination of them and SAME LOCATION; and inverting
\* once gives a different relation unless the relation is SAME LOCATION.
C24_InvertSpatialSelfInverse ==
  inv.done =>
    /\ inv.twice = inv.rel
    /\ (inv.once = inv.rel) <=> (inv.rel = <<"SAME LOCATION">>)

C24_InvertSpatialSelfInverseReached ==
  /\ inv.done
  /\ inv.rel = <<"BELOW", "NORTH", "WEST">>
  /\ inv.once = <<"ABOVE", "SOUTH", "EAST">>

(* ------------------------------------------------------------------ C25 *)
LinearByDay == GeneratedRound /\ currentRoundMode = "LINEAR" /\ ~contextIsNight

\* C25, as stated: in a LINEAR round by day the expected answer follows from
\* the query keyword and the two indices alone, the earlier item being the
\* lesser: "A GREATER than B" is true iff idxA > idxB, "A LESS than B" iff
\* idxA < idxB.
C25_LinearEarlierIsLesser ==
  LinearByDay =>
    expectedAnswerRef =
      (IF round.question.key = "GREATER"
       THEN round.question.subj > round.question.obj
       ELSE round.question.subj < round.question.obj)

\* C25, amended: in a LINEAR round by day the expected answer follows from
\* the query keyword and the two indices alone, the earlier item being the
\* greater: "A GREATER than B" is true iff idxA < idxB, "A LESS than B" iff
\* idxA > idxB, whatever the labels of the links say.
C25_LinearEarlierIsGreater ==
  LinearByDay =>
    expectedAnswerRef =
      (IF round.question.key = "GREATER"
       THEN round.question.subj < round.question.obj
       ELSE round.question.subj > round.question.obj)

\* "item 0 GREATER than item 1" expected true although the link between them
\* is labelled LESS
C25_LinearEarlierIsGreaterReached ==
  /\ LinearByDay
  /\ round.question.key = "GREATER"
  /\ round.question.subj = 0
  /\ round.question.obj = 1
  /\ LinkOf(1).rel = "LESS"
  /\ expectedAnswerRef

(* ------------------------------------------------------------------ C26 *)
\* C26: while the phase stays INTERFERENCE the target colour does not
\* change; a signal on a colour other than the target sets the miss status
\* and leaves the phase and the colour tick as they are; and the phase is
\* left only for QUESTION after a signal on the matching colour, or by an
\* abort or the end of the session, never by a timeout.
C26_InterferenceLeftOnlyByMatch ==
  [][phase = "INTERFERENCE" =>
       /\ phase' = "INTERFERENCE" => interferenceTargetColor' = interferenceTargetColor
       /\ (interferenceStatus' = "MISS" /\ interferenceStatus # "MISS") =>
            /\ phase' = "INTERFERENCE"
            /\ interferenceInterval' = interferenceInterval
       /\ phase' # "INTERFERENCE" =>
            \/ phase' \in {"SETUP", "SESSION_END"}
            \/ /\ phase' = "QUESTION"
               /\ interferenceStatus = "HIT"
               /\ interferenceCurrentColor = interferenceTargetColor]_vars

(* ------------------------------------------------------------------ C27 *)
\* what a loop that has been left ends with: a value of its pool that its
\* condition lets through, or, for the target loop, a rejected one after
\* MaxTargetAttempts rerolls
LoopResultValid ==
  /\ loop.x \in loop.pool
  /\ loop.attempts <= MaxTargetAttempts
  /\ loop.x \in loop.avoid => (loop.kind = "target" /\ loop.attempts = MaxTargetAttempts)

\* C27: under fair random draws every redraw loop of the generator is
\* left: the distinct-index loop, the STANDARD and the DEICTIC / MOVEMENT
\* false-query loops with a value their condition lets through, the MOVEMENT
\* target loop after at most 50 rerolls, with a rejected target only as the
\* fallback.
C27_GenerationTerminates ==
  /\ [](loop.pc = "done" => LoopResultValid)
  /\ (loop.pc = "loop") ~> (loop.pc = "done")

\* the target loop left with a rejected target after 50 rerolls
C27_GenerationTerminatesReached ==
  /\ loop.pc = "done"
  /\ loop.kind = "target"
  /\ loop.x \in loop.avoid
  /\ loop.attempts = MaxTargetAttempts

(* ------------------------------------------------------------------ C28 *)
\* C28: in every LINEAR, DISTINCTION, HIERARCHY, STANDARD and DEICTIC round
\* the two items the query is about are different items, and both are among
\* the numPremises + 1 items of the round.
C28_QueryIndicesDistinct ==
  (GeneratedRound /\ round.question.form # "MOVEMENT") =>
    /\ round.question.subj # round.question.obj
    /\ round.question.subj \in 0..args.num
    /\ round.question.obj \in 0..args.num

\* a DEICTIC round asking about the last item seen from the first
C28_QueryIndicesDistinctReached ==
  /\ GeneratedRound
  /\ round.question.form = "DEICTIC"
  /\ round.question.obj = 0
  /\ round.question.subj = args.num

(* ------------------------------------------------------------------ C29 *)
\* C29: with Auto-Progress off, an answer or a timeout leaves the depth as
\* it is and increments neither the progress streak nor the mistake streak,
\* while the score and the number of questions attempted are updated.
C29_NoAdaptationWhenOff ==
  [][(AnswerStep /\ ~settings.autoProgress) =>
       /\ settings'.numPremises = settings.numPremises
       /\ progressCount' <= progressCount
       /\ mistakeCount' <= mistakeCount
       /\ currentScore' = (IF sessionLog'[1].isCorrect
                           THEN currentScore + settings.numPremises * 10
                           ELSE Max(0, currentScore - 20))]_vars

(* ------------------------------------------------------------------ C30 *)
\* the answers of the current session that were correct
CorrectAnswers == Cardinality({i \in 1..Len(sessionLog) : sessionLog[i].isCorrect})

\* C30: the record a session end appends to the history carries the score,
\* the number of questions attempted, the accuracy (the rounded percentage of
\* correct answers, 0 when nothing was attempted) and the highest depth the
\* session has at that moment, whichever way the end is triggered.
C30_RecordIsSnapshot ==
  [][Len(history') > Len(history) =>
       /\ history'[Len(history')].totalScore = currentScore
       /\ history'[Len(history')].questionsAnswered = questionsAttempted
       /\ history'[Len(history')].highestDepth = maxDepthReached
       /\ history'[Len(history')].accuracy =
            (IF questionsAttempted > 0
             THEN (200 * CorrectAnswers + questionsAttempted) \div (2 * questionsAttempted)
             ELSE 0)]_vars

(* ------------------------------------------------------------------ C31 *)
\* C31: once the phase is SESSION_END it stays SESSION_END until the
\* return to the menu: no step of a pending timer or delayed callback moves
\* it to another phase or arms a timer.
C31_SessionEndIsFinal ==
  [][phase = "SESSION_END" =>
       \/ phase' = "SETUP" /\ pendingStart' = pendingStart
       \/ /\ phase' = "SESSION_END"
          /\ questionInterval'.armed => questionInterval.armed
          /\ sessionInterval'.armed => sessionInterval.armed
          /\ interferenceInterval' => interferenceInterval]_vars

(* ------------------------------------------------------------------ C32 *)
\* a step that runs the countdown of a question nobody has answered
CountdownStep ==
  /\ phase = "QUESTION"
  /\ questionSecondsRemaining' # questionSecondsRemaining
  /\ sessionLog' = sessionLog \/ Head(sessionLog').userAnswer = "TIMEOUT"

\* C32: with the question timer on in the settings the round was generated
\* under, the countdown starts at questionTimeLimit on entry to QUESTION and
\* goes down by 1 per tick; the tick that finds it at 1, the
\* questionTimeLimit-th, delivers the one timeout answer, which is scored
\* as incorrect, stops the countdown and sets RESULT; with the question
\* timer off QUESTION is left only by an answer, an abort or the end of
\* the session.
C32_QuestionCountdown ==
  [][/\ (phase # "QUESTION" /\ phase' = "QUESTION" /\ roundSettings'.useQuestionTimer) =>
          /\ questionSecondsRemaining' = roundSettings'.questionTimeLimit
          /\ questionInterval'.armed
     /\ (phase = "QUESTION" /\ questionInterval.armed) =>
          questionSecondsRemaining \in 1..roundSettings.questionTimeLimit
     /\ CountdownStep =>
          /\ roundSettings.useQuestionTimer
          /\ questionSecondsRemaining' = questionSecondsRemaining - 1
          /\ IF questionSecondsRemaining = 1
             THEN /\ AnswerStep
                  /\ Head(sessionLog').userAnswer = "TIMEOUT"
                  /\ ~Head(sessionLog').isCorrect
                  /\ phase' = "RESULT"
                  /\ ~questionInterval'.armed
             ELSE /\ phase' = "QUESTION"
                  /\ sessionLog' = sessionLog
     /\ (phase = "QUESTION" /\ phase' # "QUESTION" /\ ~roundSettings.useQuestionTimer) =>
          \/ phase' \in {"SETUP", "SESSION_END"}
          \/ /\ phase' = "RESULT"
             /\ AnswerStep
             /\ Head(sessionLog').userAnswer \in {"YES", "NO"}]_vars

(* ------------------------------------------------------------------ C33 *)
\* a step of startSession
SessionStarts == sessionsStarted' = sessionsStarted + 1

\* a tick of the session limit
LimitTick == ~SessionStarts /\ sessionTimerRef' # sessionTimerRef

\* a session is under way
InSession == phase \in {"PREMISE_MEMORIZE", "INTERFERENCE", "QUESTION", "RESULT"}

\* C33: with the session limit on, a session that was started reaches
\* SESSION_END under fair ticks: the remaining time starts at
\* sessionLengthMinutes * 60, a tick takes exactly 1 off it, and the tick
\* that brings it to 0 ends the session in whatever phase it finds (the
\* session ends unless the limit is switched off first); with the session
\* limit off no step ends the session.
C33_TimedSessionEnds ==
  /\ [][/\ (SessionStarts /\ ~settings.disableSessionTimer) =>
             sessionTimerRef' = settings.sessionLengthMinutes * SecondsPerMinute
        /\ LimitTick =>
             /\ ~settings.disableSessionTimer
             /\ sessionTimerRef' = sessionTimerRef - 1
             /\ IF sessionTimerRef' = 0
                THEN phase' = "SESSION_END" /\ Len(history') = Len(history) + 1
                ELSE phase' = phase /\ history' = history
        /\ (settings.disableSessionTimer /\ phase # "SESSION_END") =>
             phase' # "SESSION_END"]_vars
  /\ (InSession /\ ~settings.disableSessionTimer)
       ~> (phase = "SESSION_END" \/ settings.disableSessionTimer)

(* ------------------------------------------------------------------ C34 *)
\* the legend the round is shown with
Legend == getCipherList(settings.enableCipher, currentCipherMap, round.usedCipherKeys)

\* C34: during a round generated with the cipher enabled the legend maps
\* every used key to the token that stands for that keyword in the round's
\* premises and query, in every session and on key-changed rounds too.
C34_LegendMatchesRound ==
  (InSession /\ GeneratedRound /\ roundSettings.enableCipher) =>
    /\ \A i \in 1..Len(round.premises) :
         round.premises[i].rel \in round.usedCipherKeys =>
           <<round.premises[i].rel, round.premises[i].shown>> \in Legend
    /\ round.question.key \in round.usedCipherKeys =>
         <<round.question.key, round.question.shown>> \in Legend

(* ------------------------------------------------------------------ C35 *)
\* the unit vector a direction name stands for: NORTH = +y, SOUTH = -y,
\* EAST = +x, WEST = -x, ABOVE = +z, BELOW = -z
UnitVector(name) ==
  CASE name = "NORTH" -> [x |-> 0, y |-> 1, z |-> 0]
    [] name = "SOUTH" -> [x |-> 0, y |-> -1, z |-> 0]
    [] name = "EAST" -> [x |-> 1, y |-> 0, z |-> 0]
    [] name = "WEST" -> [x |-> -1, y |-> 0, z |-> 0]
    [] name = "ABOVE" -> [x |-> 0, y |-> 0, z |-> 1]
    [] name = "BELOW" -> [x |-> 0, y |-> 0, z |-> -1]
    [] OTHER -> [x |-> 0, y |-> 0, z |-> 0]

\* the premises that state where item i + 1 is relative to item i
StepPremises(i) == {p \in Elems(round.premises) : p.a = i + 1 /\ p.b = i}

\* C35: in a spatial round, by day and by night, item 0 is at the origin and
\* for each i exactly one premise states item i + 1 relative to item i, the
\* step from position i to position i + 1 being the unit vector of the
\* direction it names; the position map has numPremises + 1 nodes, which
\* are these positions; a SPATIAL_2D round has every z at 0 and no premise
\* naming ABOVE or BELOW.
C35_WalkMatchesPremises ==
  (GeneratedRound /\ SpatialMode) =>
    /\ Len(round.premises) = args.num
    /\ Len(round.visualMap) = args.num + 1
    /\ \A i \in 0..args.num : PosOf(i).id = i
    /\ PosOf(0).x = 0 /\ PosOf(0).y = 0 /\ PosOf(0).z = 0
    /\ \A i \in 0..(args.num - 1) :
         /\ Cardinality(StepPremises(i)) = 1
         /\ \A p \in StepPremises(i) :
              /\ p.rel \in {"NORTH", "SOUTH", "EAST", "WEST", "ABOVE", "BELOW"}
              /\ PosOf(i + 1).x - PosOf(i).x = UnitVector(p.rel).x
              /\ PosOf(i + 1).y - PosOf(i).y = UnitVector(p.rel).y
              /\ PosOf(i + 1).z - PosOf(i).z = UnitVector(p.rel).z
              /\ p.shown = getTerm(p.rel, args.enableCipher, args.cipherMap)
    /\ currentRoundMode = "SPATIAL_2D" =>
         /\ \A i \in 0..args.num : PosOf(i).z = 0
         /\ \A p \in Elems(round.premises) : p.rel \notin {"ABOVE", "BELOW"}

C35_WalkMatchesPremisesReached ==
  /\ GeneratedRound
  /\ currentRoundMode = "SPATIAL_3D"
  /\ contextIsNight
  /\ PosOf(1).z = 1
  /\ PosOf(2).y = -1
  /\ \E p \in StepPremises(1) : p.rel = "SOUTH"

(* ------------------------------------------------------------------ C36 *)
\* C36: questionsAttempted is the number of records of the session log, of
\* which at most that many are correct, so that the accuracy is within
\* 0..100; and startSession leaves the score, questionsAttempted, both
\* streaks and the log at zero / empty whatever they were before.
C36_AttemptsMatchLog ==
  /\ [](/\ questionsAttempted = Len(sessionLog)
        /\ CorrectAnswers <= questionsAttempted
        /\ accuracy(CorrectAnswers, questionsAttempted) \in 0..100)
  /\ [][SessionStarts =>
          /\ currentScore' = 0
          /\ questionsAttempted' = 0
          /\ progressCount' = 0
          /\ mistakeCount' = 0
          /\ sessionLog' = << >>]_vars

\* the first round of a second session draws a key change, which it does
\* only when the session before left questionsAttempted above 0
C36_AttemptsMatchLogReached ==
  /\ sessionsStarted = 2
  /\ phase = "PREMISE_MEMORIZE"
  /\ cipherHasChanged
  /\ questionsAttempted = 0
  /\ sessionLog = << >>
  /\ currentScore = 0

(* ------------------------------------------------------------------ C37 *)
\* C37: the progress streak stays within 0..2 and the mistake streak within
\* 0..1, the two are never both above 0, a correct answer leaves the
\* mistake streak at 0 and an incorrect answer or a timeout leaves the
\* progress streak at 0.
C37_StreakBounds ==
  /\ [](/\ progressCount \in 0..2
        /\ mistakeCount \in 0..1
        /\ progressCount = 0 \/ mistakeCount = 0)
  /\ [][AnswerStep =>
          IF Head(sessionLog').isCorrect
          THEN mistakeCount' = 0
          ELSE progressCount' = 0]_vars

(* ------------------------------------------------------------------ C38 *)
\* C38: SESSION_END is entered, and a record appended to the history, only
\* in a step taken in an in-session phase of a session that has generated a
\* round; the step that enters SESSION_END appends exactly one record and
\* leaves the earlier records as they were.
C38_EndOnlyFromSession ==
  [][((phase # "SESSION_END" /\ phase' = "SESSION_END") \/ history' # history) =>
       /\ InSession
       /\ GeneratedRound
       /\ phase' = "SESSION_END"
       /\ Len(history') = Len(history) + 1
       /\ SubSeq(history', 1, Len(history)) = history]_vars

====
